---- MODULE Spec2Model ----
(***************************************************************************)
(* A model of FracND (src/fracnd.py): the sliding-window box-counting      *)
(* estimator, its scale sweep and its log-log fit.                         *)
(*                                                                         *)
(* Numbers.  Window counts, touched flags and masses of integer volumes    *)
(* are integers.  The box count N = int(np.sum(touched) * norm) is an IEEE *)
(* double computation and is modelled bit-exactly (FDiv, FMulInt, FTrunc). *)
(* The lacunarity is modelled in exact rational arithmetic with the IEEE   *)
(* special values NaN for 0/0 and Inf for x/0.                             *)
(***************************************************************************)
EXTENDS Integers, Sequences, FiniteSets, TLC

\* None, and an optional value <<x>>
None == <<>>
Some(x) == <<x>>
\* no exception
NoError == "None"

----------------------------------------------------------------------------
(* Bounds of the model *)

\* largest element value of an enumerated volume
MaxVal == 1
\* largest window size and step size of a direct sliding_window_statistics call
MaxSize == 3
\* number of worker processes of the pool
PoolSize == 2
\* largest explicit histogram bin count
MaxBins == 2
\* largest value of a series given to linear_fit directly

----------------------------------------------------------------------------
(* Integer helpers *)

Min(a, b) == IF a <= b THEN a ELSE b
Max(a, b) == IF a >= b THEN a ELSE b

RECURSIVE Pow(_, _)
Pow(b, e) == IF e = 0 THEN 1 ELSE b * Pow(b, e - 1)

RECURSIVE Gcd(_, _)
Gcd(a, b) == IF b = 0 THEN a ELSE Gcd(b, a % b)

Abs(a) == IF a < 0 THEN -a ELSE a

RECURSIVE SeqProd(_)
SeqProd(s) == IF s = <<>> THEN 1 ELSE Head(s) * SeqProd(Tail(s))

RECURSIVE SeqSum(_)
SeqSum(s) == IF s = <<>> THEN 0 ELSE Head(s) + SeqSum(Tail(s))

RECURSIVE SeqMaxOrZero(_)
SeqMaxOrZero(s) == IF s = <<>> THEN 0 ELSE Max(Head(s), SeqMaxOrZero(Tail(s)))

\* int(a / b) of Python for integers a and b > 0: true division, then
\* truncation towards zero
IntTrueDiv(a, b) == IF a >= 0 THEN a \div b ELSE -((-a) \div b)

\* the mathematical floor(a / b), b > 0
FloorDiv(a, b) == a \div b

\* the sorted sequence of the elements of a finite set of integers
RECURSIVE SortedSeq(_)
SortedSeq(S) ==
    IF S = {} THEN <<>>
    ELSE LET m == CHOOSE x \in S : \A y \in S : x <= y
         IN <<m>> \o SortedSeq(S \ {m})

----------------------------------------------------------------------------
(* IEEE-754 double arithmetic on small operands.  A positive double is      *)
(* [m, e]: m its 53-bit significand as a sequence of bits, most significant *)
(* first, and e the exponent of the last bit: value = m * 2^e.              *)

\* width of the significand of a double
Mant == 53

\* the bits of n > 0, most significant first, without leading zeros
RECURSIVE BitsOf(_)
BitsOf(n) == IF n = 0 THEN <<>> ELSE BitsOf(n \div 2) \o <<n % 2>>

\* the number a sequence of at most 31 bits stands for
RECURSIVE IntOfBits(_)
IntOfBits(bs) ==
    IF bs = <<>> THEN 0 ELSE 2 * IntOfBits(SubSeq(bs, 1, Len(bs) - 1)) + bs[Len(bs)]

\* bs + 1, one bit longer when every bit is 1
IncBits(bs) ==
    LET zeros == {i \in 1..Len(bs) : bs[i] = 0}
    IN IF zeros = {} THEN <<1>> \o [i \in 1..Len(bs) |-> 0]
       ELSE LET p == CHOOSE i \in zeros : \A j \in zeros : j <= i
            IN [i \in 1..Len(bs) |-> IF i < p THEN bs[i] ELSE IF i = p THEN 1 ELSE 0]

\* round-to-nearest-even of the number bs * 2^e (plus a non-zero tail below
\* the last bit when sticky) to a double
RoundBits(bs, e, sticky) ==
    IF Len(bs) <= Mant
    THEN [m |-> bs \o [i \in 1..(Mant - Len(bs)) |-> 0], e |-> e - (Mant - Len(bs))]
    ELSE LET keep == SubSeq(bs, 1, Mant)
             drop == SubSeq(bs, Mant + 1, Len(bs))
             guard == drop[1]
             rest == sticky \/ \E i \in 2..Len(drop) : drop[i] = 1
             up == guard = 1 /\ (rest \/ keep[Mant] = 1)
             e2 == e + Len(drop)
             inc == IncBits(keep)
         IN IF ~up THEN [m |-> keep, e |-> e2]
            ELSE IF Len(inc) = Mant THEN [m |-> inc, e |-> e2]
            ELSE [m |-> SubSeq(inc, 1, Mant), e |-> e2 + 1]

\* 2^i mod b, by repeated squaring
RECURSIVE ModPow2(_, _)
ModPow2(i, b) ==
    IF i = 0 THEN 1 % b
    ELSE IF i % 2 = 0 THEN LET h == ModPow2(i \div 2, b) IN (h * h) % b
    ELSE (2 * ModPow2(i - 1, b)) % b

\* the first n bits of the binary expansion of r / b (0 <= r < b) and the
\* remainder left after them: the long division, bit i from the remainder
\* r * 2^(i-1) mod b
FracBits(r, b, n) ==
    [bits |-> [i \in 1..n |-> IF 2 * ((r * ModPow2(i - 1, b)) % b) >= b THEN 1 ELSE 0],
     r |-> (r * ModPow2(n, b)) % b]

\* the number of leading zero bits of the binary expansion of r / b, 0 < r < b
RECURSIVE LeadZeros(_, _)
LeadZeros(r, b) == IF 2 * r >= b THEN 0 ELSE 1 + LeadZeros(2 * r, b)

\* the double nearest to a / b, for integers a > 0 and b > 0
FDiv(a, b) ==
    LET ip == BitsOf(a \div b)
        r0 == a % b
        z == IF ip = <<>> /\ r0 > 0 THEN LeadZeros(r0, b) ELSE 0
        r1 == r0 * Pow(2, z)
        n == Mant + 1 - Len(ip)
        fb == FracBits(r1, b, n)
    IN RoundBits(ip \o fb.bits, -(z + n), fb.r # 0)

\* the w bits of a limb x < 2^w of the schoolbook product
LimbBits(x, w) == [i \in 1..w |-> (x \div Pow(2, w - i)) % 2]

\* t * bs as bits, for a small natural number t > 0 and a significand bs:
\* the schoolbook product over limbs, carries from the last limb up
MulBits(t, bs) ==
    LET w == 13
        pad == [i \in 1..(5 * w - Mant) |-> 0] \o bs
        L(k) == IntOfBits(SubSeq(pad, (k - 1) * w + 1, k * w))
        base == Pow(2, w)
        v5 == t * L(5)
        v4 == t * L(4) + v5 \div base
        v3 == t * L(3) + v4 \div base
        v2 == t * L(2) + v3 \div base
        v1 == t * L(1) + v2 \div base
    IN BitsOf(v1) \o LimbBits(v2 % base, w) \o LimbBits(v3 % base, w)
          \o LimbBits(v4 % base, w) \o LimbBits(v5 % base, w)

\* the double nearest to t * f, for an integer t > 0 and a double f
FMulInt(t, f) == RoundBits(MulBits(t, f.m), f.e, FALSE)

\* int(f): the integer part of a positive double smaller than 2^31
FTrunc(f) ==
    IF f.e >= 0 THEN IntOfBits(f.m) * Pow(2, f.e)
    ELSE IF -f.e >= Mant THEN 0
    ELSE IntOfBits(SubSeq(f.m, 1, Mant + f.e))

----------------------------------------------------------------------------
(* Rational numbers [n, d], d > 0, in lowest terms; NaN for 0/0 and Inf for *)
(* x/0 as numpy's float division gives them.                                *)

NaN == [n |-> 0, d |-> 0]
Inf == [n |-> 1, d |-> 0]

Rat(n, d) ==
    LET g == Gcd(Abs(n), Abs(d))
        sgn == IF d < 0 THEN -1 ELSE 1
    IN [n |-> sgn * (n \div g), d |-> sgn * (d \div g)]

IsRat(x) == x.d # 0
Lcm(a, b) == (a \div Gcd(a, b)) * b
RAdd(x, y) ==
    LET l == Lcm(x.d, y.d) IN Rat(x.n * (l \div x.d) + y.n * (l \div y.d), l)
RNeg(x) == [n |-> -x.n, d |-> x.d]
RSub(x, y) == RAdd(x, RNeg(y))
RMul(x, y) ==
    LET g1 == Gcd(Abs(x.n), y.d)
        g2 == Gcd(Abs(y.n), x.d)
    IN [n |-> (x.n \div g1) * (y.n \div g2), d |-> (x.d \div g2) * (y.d \div g1)]
RLess(x, y) == LET l == Lcm(x.d, y.d) IN x.n * (l \div x.d) < y.n * (l \div y.d)
RZero == [n |-> 0, d |-> 1]
ROne == [n |-> 1, d |-> 1]
\* x / y of numpy floats: 0/0 is NaN, x/0 is Inf
RDiv(x, y) ==
    IF y.n = 0 THEN (IF x.n = 0 THEN NaN ELSE Inf)
    ELSE Rat(x.n * y.d, x.d * y.n)

RECURSIVE RSum(_)
RSum(s) == IF s = <<>> THEN RZero ELSE RAdd(Head(s), RSum(Tail(s)))

\* the sorted sequence of the elements of a finite set of rationals
RECURSIVE RSortedSeq(_)
RSortedSeq(S) ==
    IF S = {} THEN <<>>
    ELSE LET m == CHOOSE x \in S : \A y \in S : ~RLess(y, x)
         IN <<m>> \o RSortedSeq(S \ {m})

----------------------------------------------------------------------------
(* Volumes: an N-dimensional array is [shape, data], data in C order.       *)

Dims(shape) == 1..Len(shape)
Size(shape) == SeqProd(shape)

\* the index tuples of an array of the given shape (a dimension <= 0 has none)
Cells(shape) ==
    IF \E i \in Dims(shape) : shape[i] <= 0 THEN {}
    ELSE {c \in [Dims(shape) -> 0..(Max(SeqMaxOrZero(shape), 1) - 1)] :
             \A i \in Dims(shape) : c[i] < shape[i]}

\* position of an index tuple in C order (last index fastest), from 0
RECURSIVE Ravel(_, _)
Ravel(c, shape) ==
    IF Len(shape) = 0 THEN 0
    ELSE Ravel(SubSeq(c, 1, Len(c) - 1), SubSeq(shape, 1, Len(shape) - 1))
            * shape[Len(shape)] + c[Len(c)]

\* the k-th index tuple of np.ndindex(*shape), k from 0
RECURSIVE Unravel(_, _)
Unravel(k, shape) ==
    IF Len(shape) = 0 THEN <<>>
    ELSE Unravel(k \div shape[Len(shape)], SubSeq(shape, 1, Len(shape) - 1))
            \o <<k % shape[Len(shape)]>>

At(vol, c) == vol.data[Ravel(c, vol.shape) + 1]

\* the elements of a volume as a set of positions of its data
Positions(vol) == 1..Len(vol.data)

\* the emptiness check left out
AllZero_Unchecked(vol) == FALSE

\* np.all(input_array == 0)
AllZero(vol) == \A q \in Positions(vol) : vol.data[q] = 0

----------------------------------------------------------------------------
(* FracND.Worker and the geometry of sliding_window_statistics              *)

\* the count short by the last position
window_counts_LastMissing(shape, window_size, step_size) ==
    [i \in Dims(shape) |-> IntTrueDiv(shape[i] - window_size, step_size)]

\* one entry per dimension: int((shape[i] - window_size) / step_size) + 1
window_counts(shape, window_size, step_size) ==
    [i \in Dims(shape) |-> IntTrueDiv(shape[i] - window_size, step_size) + 1]

\* one entry per dimension: int((shape[i] - window_size) / window_size) + 1
box_window_counts(shape, window_size) ==
    [i \in Dims(shape) |-> IntTrueDiv(shape[i] - window_size, window_size) + 1]

\* the number of index tuples np.ndindex(*counts) yields
NdindexLen(counts) ==
    IF \E i \in DOMAIN counts : counts[i] <= 0 THEN 0 ELSE SeqProd(counts)

\* the cells of input_array[tuple(map(slice, start, end))]: numpy clips a
\* slice to the array
WindowCells(vol, index, window_size, step_size) ==
    {c \in Cells(vol.shape) :
        \A i \in Dims(vol.shape) :
            /\ index[i] * step_size <= c[i]
            /\ c[i] < index[i] * step_size + window_size}

RECURSIVE CellSum(_, _)
CellSum(vol, cells) ==
    IF cells = {} THEN 0
    ELSE LET c == CHOOSE x \in cells : TRUE
         IN At(vol, c) + CellSum(vol, cells \ {c})

\* the window binarised by window != 0
Worker_NonZero(vol, cells) ==
    [touched |-> IF \A c \in cells : At(vol, c) = 0 THEN 0 ELSE 1,
     mass |-> CellSum(vol, cells)]

\* Worker.__call__: touched from the binarised window, mass from the raw one
Worker(vol, cells) ==
    [touched |-> IF \A c \in cells : ~(At(vol, c) > 0) THEN 0 ELSE 1,
     mass |-> CellSum(vol, cells)]

\* the window zeroed in place once it is counted
AfterWorker_Consumed(vol, cells) ==
    [vol EXCEPT !.data = [q \in DOMAIN vol.data |->
                            IF \E c \in cells : Ravel(c, vol.shape) + 1 = q
                            THEN 0 ELSE vol.data[q]]]

\* the array a window is a view of, after Worker.__call__ ran on the view:
\* squeeze returns a view, np.where and np.sum allocate their results, and
\* no element is assigned
AfterWorker(vol, cells) == vol

\* norm as a double: np.prod(box_window_counts) / np.prod(window_counts),
\* the divisor times self.subsample when subsampling.  A subsample rate is
\* [num, den] with den a power of two, so the product is exact.
Norm(box, win, subsample) ==
    IF subsample = None THEN FDiv(SeqProd(box), SeqProd(win))
    ELSE FDiv(SeqProd(box) * subsample[1].den, SeqProd(win) * subsample[1].num)

\* N = int(np.sum(touched) * norm)
BoxCount(T, norm) == IF T = 0 THEN 0 ELSE FTrunc(FMulInt(T, norm))

----------------------------------------------------------------------------
(* The mass distribution and the lacunarity of one scale                    *)

Range(s) == {s[i] : i \in DOMAIN s}
Count(s, x) == Cardinality({i \in DOMAIN s : s[i] = x})

\* mass /= np.sum(touched): every evaluated window's mass over the number of
\* touched windows; 0/0 is NaN
NormalisedMass_ByWindows(masses, T) ==
    [i \in DOMAIN masses |->
        RDiv([n |-> masses[i], d |-> 1], [n |-> Len(masses), d |-> 1])]

\* mass /= np.sum(touched)
NormalisedMass(masses, T) ==
    [i \in DOMAIN masses |-> RDiv([n |-> masses[i], d |-> 1], [n |-> T, d |-> 1])]

\* np.unique(mass, return_counts=True), p /= np.sum(p)
UniqueDistribution(m) ==
    LET centers == RSortedSeq(Range(m))
    IN [bin_centers |-> centers,
        p |-> [i \in DOMAIN centers |-> Rat(Count(m, centers[i]), Len(m))]]

RMin(S) == CHOOSE x \in S : \A y \in S : ~RLess(y, x)
RMax(S) == CHOOSE x \in S : \A y \in S : ~RLess(x, y)
RHalf == [n |-> 1, d |-> 2]
RInt(k) == [n |-> k, d |-> 1]

\* np.histogram(mass, bins = B): B equal bins over [min, max] (widened by 0.5
\* each side when min = max), the last bin closed; then the bins with p = 0
\* dropped and p /= np.sum(p)
HistogramDistribution(m, B) ==
    LET lo0 == RMin(Range(m))
        hi0 == RMax(Range(m))
        lo == IF lo0 = hi0 THEN RSub(lo0, RHalf) ELSE lo0
        hi == IF lo0 = hi0 THEN RAdd(hi0, RHalf) ELSE hi0
        w == RSub(hi, lo)
        edge(i) == RAdd(lo, RMul(w, Rat(i - 1, B)))
        binOf(x) == IF x = hi THEN B
                    ELSE CHOOSE i \in 1..B : ~RLess(x, edge(i)) /\ RLess(x, edge(i + 1))
        cnt(i) == Cardinality({j \in DOMAIN m : binOf(m[j]) = i})
        keep == SortedSeq({i \in 1..B : cnt(i) # 0})
    IN [bin_centers |-> [j \in DOMAIN keep |->
                            RMul(RAdd(edge(keep[j]), edge(keep[j] + 1)), RHalf)],
        p |-> [j \in DOMAIN keep |-> Rat(cnt(keep[j]), Len(m))]]

\* ceil(log2(n) + 1), the bin count of the Sturges estimator
RECURSIVE SturgesBins(_)
SturgesBins(n) == IF n <= 1 THEN 1 ELSE 1 + SturgesBins((n + 1) \div 2)

\* the bin counts bins = 'auto' can give: 1 when the data are constant (zero
\* width), otherwise at least the Sturges count; the Freedman-Diaconis
\* width can only add bins and is left open up to AutoSlack more
AutoSlack == 1
\* self.bins = 'auto'
auto == 0
BinChoices(bins, m) ==
    IF bins # auto THEN {bins}
    ELSE IF Cardinality(Range(m)) = 1 THEN {1}
    ELSE SturgesBins(Len(m))..(SturgesBins(Len(m)) + AutoSlack)

\* mean = np.sum(p*bin_centers); var = np.sum(p*(bin_centers - mean)**2);
\* lacunarity = var/mean**2 + 1
Mean(dist) == RSum([j \in DOMAIN dist.p |-> RMul(dist.p[j], dist.bin_centers[j])])
Variance(dist) ==
    LET mean == Mean(dist)
        dev2(c, q) == RMul(q, RMul(RSub(c, mean), RSub(c, mean)))
    IN RSum([j \in DOMAIN dist.p |-> dev2(dist.bin_centers[j], dist.p[j])])
\* var / mean**2 without the offset
Lacunarity_NoOffset(dist) ==
    LET mean == Mean(dist) IN RDiv(Variance(dist), RMul(mean, mean))

\* lacunarity = var/mean**2 + 1
Lacunarity(dist) ==
    LET mean == Mean(dist)
        ratio == RDiv(Variance(dist), RMul(mean, mean))
    IN IF IsRat(ratio) THEN RAdd(ratio, ROne) ELSE ratio

----------------------------------------------------------------------------
(* The scale sequence of __call__ *)

\* floor(log2(n)), n >= 1
RECURSIVE Log2Floor(_)
Log2Floor(n) == IF n <= 1 THEN 0 ELSE 1 + Log2Floor(n \div 2)

\* floor(2^(p/q)) for integers p >= 0 and q >= 1: the largest k with k^q <= 2^p
FloorPow2(p, q) ==
    LET top == Pow(2, (p + q - 1) \div q)
    IN CHOOSE k \in 1..top :
          /\ Pow(k, q) <= Pow(2, p)
          /\ k = top \/ Pow(k + 1, q) > Pow(2, p)

\* np.floor(np.logspace(max_exp, min_exp, num = n_samples, base = 2)): sample
\* j of n_samples has the exponent max_exp + j (min_exp - max_exp)/(n_samples - 1)
Logspace(max_exp, min_exp, n_samples) ==
    IF n_samples = 1 THEN <<Pow(2, max_exp)>>
    ELSE [j \in 1..n_samples |->
            FloorPow2(max_exp * (n_samples - 1) + (j - 1) * (min_exp - max_exp),
                      n_samples - 1)]

\* np.unique: the distinct values, sorted ascending
Unique(s) == SortedSeq(Range(s))

SetMin(S) == CHOOSE x \in S : \A y \in S : x <= y
SeqMin(s) == SetMin(Range(s))

\* the first occurrences of the values of s, in the order of s
RECURSIVE Dedup(_)
Dedup(s) ==
    IF s = <<>> THEN <<>>
    ELSE LET front == Dedup(SubSeq(s, 1, Len(s) - 1))
         IN IF s[Len(s)] \in Range(front) THEN front ELSE Append(front, s[Len(s)])

\* the duplicates removed in generation order, largest scale first
Scales_GenerationOrder(max_box_size, min_box_size, n_samples) ==
    Dedup(Logspace(max_box_size, min_box_size, n_samples))

\* lines 145-149: the default max_box_size, then the scales
DefaultMaxBoxSize(vol) == Log2Floor(SeqMin(vol.shape))
Scales(max_box_size, min_box_size, n_samples) ==
    Unique(Logspace(max_box_size, min_box_size, n_samples))

----------------------------------------------------------------------------
(* linear_fit *)

\* lines 129-132: scales[j] is the smallest scale of the j-th unique value,
\* vals the unique values > 0, scales cut to the length of vals
FitPairs(scales, vals) ==
    LET uniq == RSortedSeq(Range(vals))
        all_scales == [j \in DOMAIN uniq |->
                         SetMin({scales[i] : i \in {i2 \in DOMAIN vals : vals[i2] = uniq[j]}})]
        positive == {j \in DOMAIN uniq : uniq[j].n > 0}
        kept == SortedSeq(positive)
    IN [j \in DOMAIN kept |-> [scale |-> all_scales[j], val |-> uniq[kept[j]]]]

\* the fewest points np.polyfit(x, y, 1, cov=True) accepts: more than the
\* two coefficients, or the covariance cannot be scaled
PolyfitMinPoints == 3

\* what np.polyfit does with the points: it raises on fewer of them than
\* PolyfitMinPoints; the normal matrix of points on one abscissa is singular
\* up to rounding, and its inversion raises or not
PolyfitOutcomes_TwoPoints(pairs) ==
    IF Len(pairs) < 2 THEN {"error"}
    ELSE IF Cardinality({pairs[j].scale : j \in DOMAIN pairs}) = 1 THEN {"error", "ok"}
    ELSE {"ok"}

\* np.polyfit(np.log(scales), np.log(vals), 1, cov=True)
PolyfitOutcomes(pairs) ==
    IF Len(pairs) < PolyfitMinPoints THEN {"error"}
    ELSE IF Cardinality({pairs[j].scale : j \in DOMAIN pairs}) = 1 THEN {"error", "ok"}
    ELSE {"ok"}

\* the outcomes of linear_fit: np.min of an empty selection raises when a
\* value is NaN (nothing equals NaN); otherwise the fit of the pairs
FitOutcomes(scales, vals) ==
    IF \E i \in DOMAIN vals : ~IsRat(vals[i]) THEN {"error"}
    ELSE PolyfitOutcomes(FitPairs(scales, vals))

\* the pairs np.polyfit was last given, after a call of linear_fit that
\* found them in before: a NaN value raises before np.polyfit is reached
PairsGiven(scales, vals, before) ==
    IF \E i \in DOMAIN vals : ~IsRat(vals[i]) THEN before ELSE FitPairs(scales, vals)

\* largest magnitude of a slope the model holds exactly
MaxSlope == 2

\* the points (log(scale), log(val)) lie on one line of slope D
LogCollinear(pairs, D) ==
    \A i, j \in DOMAIN pairs :
        LET a == pairs[i]
            b == pairs[j]
        IN IF D >= 0
           THEN a.val.n * b.val.d * Pow(b.scale, D) = b.val.n * a.val.d * Pow(a.scale, D)
           ELSE a.val.n * b.val.d * Pow(a.scale, -D) = b.val.n * a.val.d * Pow(b.scale, -D)

\* the slope with the abscissa log(1/scale) whatever invert_scales is
Slope_AlwaysInverted(pairs, invert_scales) ==
    LET fits == {D \in (-MaxSlope)..MaxSlope : LogCollinear(pairs, D)}
    IN IF Cardinality({pairs[j].scale : j \in DOMAIN pairs}) < 2 \/ fits = {}
       THEN None
       ELSE Some(-(CHOOSE D \in fits : TRUE))

\* lines 131-134: popt[0], the least-squares slope over log(scale), or over
\* log(1/scale) when invert_scales. Points on one line of integer slope are
\* fitted by that line; of any other fit the model holds no slope (None)
Slope(pairs, invert_scales) ==
    LET fits == {D \in (-MaxSlope)..MaxSlope : LogCollinear(pairs, D)}
    IN IF Cardinality({pairs[j].scale : j \in DOMAIN pairs}) < 2 \/ fits = {}
       THEN None
       ELSE LET D == CHOOSE D \in fits : TRUE
            IN Some(IF invert_scales THEN -D ELSE D)

NoFit == [set |-> FALSE, pairs |-> <<>>, invert_scales |-> FALSE, slope |-> None]
linear_fit(scales, vals, invert_scales) ==
    [set |-> TRUE, pairs |-> FitPairs(scales, vals), invert_scales |-> invert_scales,
     slope |-> Slope(FitPairs(scales, vals), invert_scales)]

----------------------------------------------------------------------------
(* Inputs *)

\* every volume of the given shape with elements in 0..MaxVal
VolumesOf(shape) ==
    {[shape |-> shape, data |-> d] : d \in [1..Size(shape) -> 0..MaxVal]}

\* the volume of the given shape with every element v
Solid(shape, v) == [shape |-> shape, data |-> [q \in 1..Size(shape) |-> v]]

\* shapes whose volumes are enumerated element by element
SmallShapes == {<<3>>, <<2, 2>>}
\* shapes (2^k)^d scanned as solids, by disjoint boxes of sizes 2^j
CubeShapes == {<<1>>, <<2>>, <<4>>, <<1, 1>>, <<2, 2>>, <<4, 4>>}
BoxSizes == {1, 2, 4}
\* a long solid scanned by overlapping windows
LongShape == <<45>>

Volumes == UNION {VolumesOf(sh) : sh \in SmallShapes}

\* the scans of solids: [vol, window_size, step_size]
SolidScans ==
    {[vol |-> Solid(sh, v), window_size |-> b, step_size |-> b] :
        sh \in CubeShapes, v \in 1..MaxVal, b \in BoxSizes}
    \cup {[vol |-> Solid(LongShape, v), window_size |-> 3, step_size |-> 2] :
            v \in 1..MaxVal}

\* subsample rates: none, or one half
Subsamples == {None, Some([num |-> 1, den |-> 2])}

----------------------------------------------------------------------------
(* State *)

VARIABLES
    cfg,            \* the instance's configuration attributes
    scales,         \* self.scales
    Ns,             \* self.Ns
    lacunarity_spectrum,    \* self.lacunarity_spectrum
    popt,           \* self.popt, with self.FD its slope
    ls_popt,        \* self.ls_popt, with self.LD its slope
    scale_ix,       \* position of the loop over self.scales
    input_array,    \* the volume of the running call
    args,           \* the arguments of the running method
    scan,           \* the locals of sliding_window_statistics
    fit_pairs,      \* the (scale, value) pairs linear_fit last gave np.polyfit
    ret,            \* the value the last method returned
    err,            \* the exception the last method raised
    pc,             \* where the program is
    batch,          \* the locals of batch_analyze_dataset and its results file
    frame           \* the locals of the running module-level function and its files

\* the attributes __call__ stores its results in
attrs == <<scales, Ns, lacunarity_spectrum, popt, ls_popt>>
\* the state of a FracND instance and of its running method
fracnd_vars == <<cfg, scales, Ns, lacunarity_spectrum, popt, ls_popt, scale_ix,
                 input_array, args, scan, fit_pairs, ret, err, pc>>
vars == <<cfg, scales, Ns, lacunarity_spectrum, popt, ls_popt, scale_ix,
          input_array, args, scan, fit_pairs, ret, err, pc, batch, frame>>

\* FracND.__init__: the instances direct calls of sliding_window_statistics
\* and linear_fit are made on
ScanConfigs ==
    {c \in [max_box_size : {None}, min_box_size : {1}, stride : {Some(1)},
            n_samples : {2}, subsample : Subsamples, multiprocess : BOOLEAN,
            histogram : BOOLEAN, bins : {auto, MaxBins}] :
        c.histogram \/ c.bins = auto}

\* FracND.__init__: the instances __call__ is made on
CallConfigs ==
    [max_box_size : {None, Some(2)}, min_box_size : {0, 1},
     stride : {None, Some(1)}, n_samples : {2, 3},
     subsample : {None}, multiprocess : BOOLEAN,
     histogram : {FALSE}, bins : {auto}]
    \cup
    [max_box_size : {None}, min_box_size : {0, 1},
     stride : {Some(1)}, n_samples : {3},
     subsample : Subsamples, multiprocess : BOOLEAN,
     histogram : {FALSE}, bins : {auto}]
    \cup
    [max_box_size : {None}, min_box_size : {0, 1},
     stride : {None}, n_samples : {7},
     subsample : {None}, multiprocess : {TRUE},
     histogram : {FALSE}, bins : {auto}]

NoScan == [window_size |-> 0, step_size |-> 0, window_counts |-> <<>>,
           box_window_counts |-> <<>>, k |-> 0, res |-> <<>>, pool |-> "none"]
NoVolume == [shape |-> <<>>, data |-> <<>>]
NoArgs == [window_size |-> 0, step_size |-> 0, scales |-> <<>>, vals |-> <<>>,
           invert_scales |-> FALSE, levels |-> 0]
NoReturn == [N |-> 0, lacunarity |-> NaN, dist |-> [bin_centers |-> <<>>, p |-> <<>>],
             T |-> 0, fit |-> NoFit,
             array |-> NoVolume]

\* before batch_analyze_dataset is called: no results file exists
NoSummary == [total_patients |-> 0, successful |-> 0, failed |-> 0,
              success_rate |-> RZero, detailed_results |-> <<>>]
NoBatch == [pc |-> "idle", patient_folders |-> <<>>, start_from |-> 0,
            save_intermediate |-> FALSE, i |-> 0, successful |-> 0, failed |-> 0,
            df_main |-> <<>>, csv |-> None, all_results |-> <<>>, calls |-> <<>>,
            summary |-> NoSummary, runs |-> 0]

\* no module-level function is running
NoFrame == [pc |-> "idle"]

\* the state after the constructor: no result attribute exists yet
Constructed ==
    /\ scales = <<>>
    /\ Ns = <<>>
    /\ lacunarity_spectrum = <<>>
    /\ popt = NoFit
    /\ ls_popt = NoFit
    /\ scale_ix = 0
    /\ input_array = NoVolume
    /\ args = NoArgs
    /\ scan = NoScan
    /\ fit_pairs = <<>>
    /\ ret = NoReturn
    /\ err = NoError
    /\ pc = "idle"
    /\ batch = NoBatch
    /\ frame = NoFrame

InitScan == cfg \in ScanConfigs /\ Constructed
Init == cfg \in CallConfigs /\ Constructed

----------------------------------------------------------------------------
(* sliding_window_statistics *)

Raise(e) == /\ err' = e
            /\ pc' = "raised"

\* lines 49-71: the counts, the pool, and the start of the loop over
\* np.ndindex(*window_counts), which refuses a negative count
ScanEnter(vol, window_size, step_size) ==
    LET wc == window_counts(vol.shape, window_size, step_size)
        bc == box_window_counts(vol.shape, window_size)
    IN /\ scan' = [window_size |-> window_size, step_size |-> step_size,
                   window_counts |-> wc, box_window_counts |-> bc,
                   k |-> 0, res |-> <<>>,
                   pool |-> IF cfg.multiprocess THEN "open" ELSE "none"]
       /\ IF \E i \in DOMAIN wc : wc[i] < 0
          THEN Raise("ValueError")
          ELSE pc' = "enumerate" /\ err' = NoError

\* a direct call of the public method
ScanCall(vol, window_size, step_size) ==
    /\ pc = "idle"
    /\ input_array' = vol
    /\ args' = [NoArgs EXCEPT !.window_size = window_size, !.step_size = step_size]
    /\ ScanEnter(vol, window_size, step_size)
    /\ UNCHANGED <<batch, frame, cfg, attrs, scale_ix, fit_pairs, ret>>

\* lines 71-88, one iteration: the Bernoulli draw smpl, then the window is
\* cut out and handed to the pool, or evaluated at once without a pool
Submit(smpl) ==
    /\ pc = "enumerate"
    /\ scan.k < NdindexLen(scan.window_counts)
    /\ cfg.subsample = None => smpl = 1
    /\ LET index == Unravel(scan.k, scan.window_counts)
           cells == WindowCells(input_array, index, scan.window_size, scan.step_size)
           w == Worker(input_array, cells)
           task == IF cfg.multiprocess
                   THEN [index |-> index, cells |-> cells, done |-> FALSE,
                         touched |-> 0, mass |-> 0]
                   ELSE [index |-> index, cells |-> cells, done |-> TRUE,
                         touched |-> w.touched, mass |-> w.mass]
       IN /\ scan' = [scan EXCEPT !.k = @ + 1,
                                  !.res = IF smpl = 0 THEN @ ELSE Append(@, task)]
          \* the pool's worker gets a pickled copy, the direct call the view
          /\ input_array' = IF smpl = 0 \/ cfg.multiprocess THEN input_array
                             ELSE AfterWorker(input_array, cells)
    /\ UNCHANGED <<batch, frame, cfg, attrs, scale_ix, args, fit_pairs, ret, err, pc>>

\* the tasks a worker process can be running: with PoolSize workers taking
\* tasks in submission order, the first PoolSize unfinished ones
Running(res) ==
    LET undone == {i \in DOMAIN res : ~res[i].done}
    IN {i \in undone : Cardinality({j \in undone : j < i}) < PoolSize}

\* a finished task's result is stored in the first free slot, in the order
\* the workers finish
WorkerRun_CompletionOrder(i) ==
    /\ scan.pool = "open"
    /\ i \in Running(scan.res)
    /\ LET w == Worker(input_array, scan.res[i].cells)
           j == CHOOSE j \in Running(scan.res) : \A j2 \in Running(scan.res) : j <= j2
       IN scan' = [scan EXCEPT !.res[j].done = TRUE,
                               !.res[j].touched = w.touched,
                               !.res[j].mass = w.mass]
    /\ UNCHANGED <<batch, frame, cfg, attrs, scale_ix, input_array, args, fit_pairs, ret, err, pc>>

\* a worker process finishes a task: window_func(window)
WorkerRun(i) ==
    /\ scan.pool = "open"
    /\ i \in Running(scan.res)
    /\ LET w == Worker(input_array, scan.res[i].cells)
       IN scan' = [scan EXCEPT !.res[i].done = TRUE,
                               !.res[i].touched = w.touched,
                               !.res[i].mass = w.mass]
    /\ UNCHANGED <<batch, frame, cfg, attrs, scale_ix, input_array, args, fit_pairs, ret, err, pc>>

\* lines 98-123 on the gathered results
Statistics(results, B) ==
    LET touched == [i \in DOMAIN results |-> results[i].touched]
        mass == [i \in DOMAIN results |-> results[i].mass]
        T == SeqSum(touched)
        N == BoxCount(T, Norm(scan.box_window_counts, scan.window_counts, cfg.subsample))
        m == NormalisedMass(mass, T)
        dist == IF cfg.histogram THEN HistogramDistribution(m, B)
                ELSE UniqueDistribution(m)
    IN IF \E i \in DOMAIN m : ~IsRat(m[i])
       THEN [N |-> N, lacunarity |-> NaN,
             dist |-> [bin_centers |-> <<NaN>>, p |-> <<ROne>>], T |-> T, fit |-> NoFit,
             array |-> NoVolume]
       ELSE [N |-> N, lacunarity |-> Lacunarity(dist), dist |-> dist, T |-> T,
             fit |-> NoFit, array |-> NoVolume]

\* the join left out: the results are gathered at once
Joined_NoWait(res) == TRUE

\* lines 91-93: pool.join() returns when every submitted task has finished
Joined(res) == \A i \in DOMAIN res : res[i].done

\* lines 90-125: the pool is closed and joined, the results are gathered in
\* submission order, and N and the lacunarity are computed
ScanReturn ==
    /\ pc = "enumerate"
    /\ scan.k = NdindexLen(scan.window_counts)
    /\ Joined(scan.res)
    /\ scan' = [scan EXCEPT !.pool = IF @ = "open" THEN "closed" ELSE @]
    /\ IF ~cfg.multiprocess /\ scan.res # <<>>
       THEN \* r.get() on a (touched, mass) tuple
            Raise("AttributeError") /\ UNCHANGED ret
       ELSE IF scan.res = <<>>
       THEN \* touched, mass = zip(*[])
            Raise("ValueError") /\ UNCHANGED ret
       ELSE LET T == SeqSum([i \in DOMAIN scan.res |-> scan.res[i].touched])
            IN IF cfg.histogram /\ T = 0
               THEN \* np.histogram on NaN data: the range is not finite
                    Raise("ValueError") /\ UNCHANGED ret
               ELSE \E B \in (IF cfg.histogram /\ T # 0
                              THEN BinChoices(cfg.bins,
                                      NormalisedMass([i \in DOMAIN scan.res |-> scan.res[i].mass], T))
                              ELSE {0}) :
                        /\ ret' = Statistics(scan.res, B)
                        /\ pc' = "returned"
                        /\ err' = NoError
    /\ UNCHANGED <<batch, frame, cfg, attrs, scale_ix, input_array, args, fit_pairs>>

\* the direct calls made: every enumerated volume, every size and step
ScanCalls ==
    /\ pc = "idle"
    /\ \E vol \in Volumes, window_size \in 1..(MaxSize + 1), step_size \in 1..MaxSize :
          ScanCall(vol, window_size, step_size)

NextScan ==
    \/ ScanCalls
    \/ \E smpl \in {0, 1} : Submit(smpl)
    \/ \E i \in DOMAIN scan.res : WorkerRun(i)
    \/ ScanReturn

SpecScan == InitScan /\ [][NextScan]_vars

\* sliding_window_statistics on solids, on an instance with the default
\* pool and no subsampling
InitSolid ==
    /\ cfg \in {c \in ScanConfigs : c.subsample = None /\ c.multiprocess}
    /\ Constructed

SolidCalls ==
    /\ pc = "idle"
    /\ \E a \in SolidScans : ScanCall(a.vol, a.window_size, a.step_size)

NextSolid ==
    \/ SolidCalls
    \/ \E smpl \in {0, 1} : Submit(smpl)
    \/ \E i \in DOMAIN scan.res : WorkerRun(i)
    \/ ScanReturn

SpecSolid == InitSolid /\ [][NextSolid]_vars

----------------------------------------------------------------------------
(* Worker called directly *)

\* the windows handed to the worker: every array of a small shape with
\* elements of either sign
Windows ==
    UNION {{[shape |-> sh, data |-> d] : d \in [1..Size(sh) -> (-MaxVal)..MaxVal]} :
              sh \in SmallShapes}

InitWorker ==
    /\ cfg \in {c \in ScanConfigs : c.subsample = None /\ ~c.histogram /\ c.multiprocess}
    /\ Constructed

\* window_func(window): the result is kept as the one entry of res
WorkerCall(window) ==
    /\ pc = "idle"
    /\ input_array' = window
    /\ LET cells == Cells(window.shape)
           w == Worker(window, cells)
       IN scan' = [NoScan EXCEPT !.res = <<[index |-> <<>>, cells |-> cells, done |-> TRUE,
                                            touched |-> w.touched, mass |-> w.mass]>>]
    /\ pc' = "returned"
    /\ UNCHANGED <<batch, frame, cfg, attrs, scale_ix, args, fit_pairs, ret, err>>

NextWorker ==
    /\ pc = "idle"
    /\ \E window \in Windows : WorkerCall(window)

SpecWorker == InitWorker /\ [][NextWorker]_vars

----------------------------------------------------------------------------
(* greyscale_to_binary *)

\* largest element and largest level of the enumerated arrays
MaxGrey == 3
MaxLevels == 3

SetMax(S) == CHOOSE x \in S : \A y \in S : x >= y

\* lines 245-246: ((x - min) / (max - min) * levels).astype(int), the
\* quotient and the product rounded to doubles
Quantise(x, lo, hi, levels) ==
    IF x = lo THEN 0 ELSE FTrunc(FMulInt(levels, FDiv(x - lo, hi - lo)))

\* every element below the pixel value set: a column of that many ones
OneHot_Thermometer(pixel_value, k) == IF k < pixel_value THEN 1 ELSE 0

\* lines 258-263: element k of the added axis is 1 at the pixel value
OneHot(pixel_value, k) == IF k = pixel_value THEN 1 ELSE 0

\* lines 245-265 for an array with two distinct elements
greyscale_to_binary(array, levels) ==
    LET lo == SetMin(Range(array.data))
        hi == SetMax(Range(array.data))
        pixel_values == [i \in DOMAIN array.data |-> Quantise(array.data[i], lo, hi, levels)]
        max_pixel_value == SetMax(Range(pixel_values))
        depth == max_pixel_value + 1
        binary_shape == Append(array.shape, depth)
    IN [shape |-> binary_shape,
        data |-> [j \in 1..Size(binary_shape) |->
                     OneHot(pixel_values[((j - 1) \div depth) + 1], (j - 1) % depth)]]

\* the calls made: every small array with elements in 0..MaxGrey and every
\* levels in 1..MaxLevels, and one whose quotient is rounded below a level
GreyArrays ==
    UNION {{[shape |-> sh, data |-> d] : d \in [1..Size(sh) -> 0..MaxGrey]} :
              sh \in SmallShapes}
GreyCalls ==
    {[array |-> a, levels |-> l] : a \in GreyArrays, l \in 1..MaxLevels}
    \cup {[array |-> [shape |-> <<3>>, data |-> <<0, 15, 22>>], levels |-> 22]}

InitGrey ==
    /\ cfg \in {c \in ScanConfigs : c.subsample = None /\ ~c.histogram /\ c.multiprocess}
    /\ Constructed

\* lines 238-265; on a constant array the quotient is 0/0, and NaN cast to
\* int is the smallest integer (np.zeros then refuses the negative
\* dimension) or 0, as the platform has it
GreyCall(array, levels) ==
    /\ pc = "idle"
    /\ input_array' = array
    /\ args' = [NoArgs EXCEPT !.levels = levels]
    /\ IF Cardinality(Range(array.data)) = 1
       THEN \/ Raise("ValueError") /\ UNCHANGED ret
            \/ /\ ret' = [NoReturn EXCEPT !.array =
                              [shape |-> Append(array.shape, 1),
                               data |-> [j \in DOMAIN array.data |-> 1]]]
               /\ pc' = "returned"
               /\ UNCHANGED err
       ELSE /\ ret' = [NoReturn EXCEPT !.array = greyscale_to_binary(array, levels)]
            /\ pc' = "returned"
            /\ UNCHANGED err
    /\ UNCHANGED <<batch, frame, cfg, attrs, scale_ix, scan, fit_pairs>>

NextGrey ==
    /\ pc = "idle"
    /\ \E c \in GreyCalls : GreyCall(c.array, c.levels)

SpecGrey == InitGrey /\ [][NextGrey]_vars

----------------------------------------------------------------------------
(* linear_fit called directly *)

\* longest series given to linear_fit
MaxFitLen == 3
FitScales == {1, 2, 4}
FitVals == {NaN} \cup {RInt(v) : v \in 0..3}

InitFit ==
    /\ cfg \in {c \in ScanConfigs : c.subsample = None /\ ~c.histogram}
    /\ Constructed

\* lines 128-136
FitCall(s, vals, invert_scales) ==
    /\ pc = "idle"
    /\ Len(s) = Len(vals)
    /\ args' = [NoArgs EXCEPT !.scales = s, !.vals = vals,
                              !.invert_scales = invert_scales]
    /\ fit_pairs' = PairsGiven(s, vals, fit_pairs)
    /\ \E outcome \in FitOutcomes(s, vals) :
          IF outcome = "error"
          THEN Raise("FitError") /\ UNCHANGED ret
          ELSE /\ ret' = [NoReturn EXCEPT !.fit = linear_fit(s, vals, invert_scales)]
               /\ pc' = "returned"
               /\ UNCHANGED err
    /\ UNCHANGED <<batch, frame, cfg, attrs, scale_ix, input_array, scan>>

NextFit ==
    /\ pc = "idle"
    /\ \E n \in 1..MaxFitLen :
          \E s \in [1..n -> FitScales], vals \in [1..n -> FitVals],
             invert_scales \in BOOLEAN :
                FitCall(s, vals, invert_scales)

SpecFit == InitFit /\ [][NextFit]_vars

\* linear_fit called directly on series of positive powers of two, the
\* exact power laws over FitScales among them
PowerVals == {RInt(Pow(2, e)) : e \in {0, 1, 2, 4}}

InitPower == InitFit

NextPower ==
    /\ pc = "idle"
    /\ \E n \in 1..MaxFitLen :
          \E s \in [1..n -> FitScales], vals \in [1..n -> PowerVals],
             invert_scales \in BOOLEAN :
                FitCall(s, vals, invert_scales)

SpecPower == InitPower /\ [][NextPower]_vars

----------------------------------------------------------------------------
(* __call__ *)

\* shapes of the volumes __call__ is made on
CallShapes == {<<1>>, <<4>>, <<2, 2>>}
\* the longest line of ones a call is made on
MaxSolid == 8
CallVolumes == UNION {VolumesOf(sh) : sh \in CallShapes} \cup {Solid(<<MaxSolid>>, 1)}

\* lines 139-152: the emptiness check, then the scales and the empty series
Call(vol) ==
    /\ pc = "idle"
    /\ input_array' = vol
    /\ IF AllZero(vol)
       THEN /\ Raise("ValueError")
            /\ UNCHANGED <<cfg, attrs, scale_ix>>
       ELSE LET max_box_size == IF cfg.max_box_size = None
                                THEN DefaultMaxBoxSize(vol)
                                ELSE cfg.max_box_size[1]
            IN /\ cfg' = [cfg EXCEPT !.max_box_size = Some(max_box_size)]
               /\ scales' = Scales(max_box_size, cfg.min_box_size, cfg.n_samples)
               /\ Ns' = <<>>
               /\ lacunarity_spectrum' = <<>>
               /\ scale_ix' = 1
               /\ pc' = "loop"
               /\ UNCHANGED <<popt, ls_popt, err>>
    /\ UNCHANGED <<batch, frame, args, scan, fit_pairs, ret>>

\* lines 155-161: the next scale, its step, and the call of the scanner
NextScale ==
    /\ pc = "loop"
    /\ scale_ix <= Len(scales)
    /\ LET scale == scales[scale_ix]
           step_size == IF cfg.stride = None THEN scale ELSE cfg.stride[1]
       IN /\ args' = [NoArgs EXCEPT !.window_size = scale, !.step_size = step_size]
          /\ ScanEnter(input_array, scale, step_size)
    /\ UNCHANGED <<batch, frame, cfg, attrs, scale_ix, input_array, fit_pairs, ret>>

\* lines 161-163: the scanner's pair is appended to the series
AppendResult ==
    /\ pc = "returned"
    /\ Ns' = Append(Ns, ret.N)
    /\ lacunarity_spectrum' = Append(lacunarity_spectrum, ret.lacunarity)
    /\ scale_ix' = scale_ix + 1
    /\ pc' = "loop"
    /\ UNCHANGED <<batch, frame, cfg, scales, popt, ls_popt, input_array, args, scan, fit_pairs,
                   ret, err>>

\* lines 165-173: the fit of the box counts, then of the lacunarities
Fit ==
    /\ pc = "loop"
    /\ scale_ix > Len(scales)
    /\ LET counts == [j \in DOMAIN Ns |-> RInt(Ns[j])]
       IN \E fd \in FitOutcomes(scales, counts),
             ld \in FitOutcomes(scales, lacunarity_spectrum) :
            IF fd = "error"
            THEN /\ Raise("FitError")
                 /\ fit_pairs' = PairsGiven(scales, counts, fit_pairs)
                 /\ UNCHANGED <<popt, ls_popt>>
            ELSE /\ popt' = linear_fit(scales, counts, TRUE)
                 /\ fit_pairs' = PairsGiven(scales, lacunarity_spectrum,
                                            FitPairs(scales, counts))
                 /\ IF ld = "error"
                    THEN Raise("FitError") /\ UNCHANGED ls_popt
                    ELSE /\ ls_popt' = linear_fit(scales, lacunarity_spectrum, FALSE)
                         /\ pc' = "done"
                         /\ UNCHANGED err
    /\ UNCHANGED <<batch, frame, cfg, scales, Ns, lacunarity_spectrum, scale_ix, input_array,
                   args, scan, ret>>

Calls ==
    /\ pc = "idle"
    /\ \E vol \in CallVolumes : Call(vol)

Next ==
    \/ Calls
    \/ NextScale
    \/ \E smpl \in {0, 1} : Submit(smpl)
    \/ \E i \in DOMAIN scan.res : WorkerRun(i)
    \/ ScanReturn
    \/ AppendResult
    \/ Fit

Spec == Init /\ [][Next]_vars


----------------------------------------------------------------------------
(* batch_analyze_dataset (src/fractal_analysis/analyzer.py)                 *)

\* most patient folders of a dataset, most runs on one output folder
MaxPatients == 3
MaxRuns == 2

\* what one pass of the loop body can meet: analyze_patient_folder returns
\* and the row is stored ("ok"), analyze_patient_folder or the extraction
\* of the row raises ("error"), or the intermediate to_csv raises once the
\* row is in the table ("save_error")
Outcomes == {"ok", "error", "save_error"}

\* nothing raised in the loop body is caught
Caught_Nothing(outcome) == FALSE

\* except Exception: every exception the loop body raises is caught
Caught(outcome) == TRUE

\* patient_folders[start_from:]
Remaining(b) == SubSeq(b.patient_folders, b.start_from + 1, Len(b.patient_folders))

InitBatch ==
    /\ cfg \in {c \in ScanConfigs : c.subsample = None /\ ~c.histogram /\ c.multiprocess}
    /\ Constructed

\* lines 307-337: the patient folders found and sorted, the table read from
\* the results file when it exists, the counters reset
BatchCall(dataset, start_from, save_intermediate) ==
    /\ batch.pc \in {"idle", "returned"}
    /\ batch.runs < MaxRuns
    /\ batch' = [batch EXCEPT !.pc = "loop",
                              !.patient_folders = SortedSeq(dataset),
                              !.start_from = start_from,
                              !.save_intermediate = save_intermediate,
                              !.i = 0,
                              !.successful = 0,
                              !.failed = 0,
                              !.df_main = IF batch.csv = None THEN <<>> ELSE batch.csv[1],
                              !.all_results = <<>>,
                              !.calls = <<>>,
                              !.summary = NoSummary,
                              !.runs = @ + 1]
    /\ UNCHANGED <<fracnd_vars, frame>>

\* lines 340-376, one pass of the loop
AnalyzePatient(outcome) ==
    /\ batch.pc = "loop"
    /\ batch.i < Len(Remaining(batch))
    /\ outcome = "save_error" => batch.save_intermediate
    /\ LET patient_folder == Remaining(batch)[batch.i + 1]
           stored == outcome \in {"ok", "save_error"}
           table == IF stored THEN Append(batch.df_main, patient_folder)
                    ELSE batch.df_main
       IN batch' = [batch EXCEPT
             !.calls = Append(@, [patient_folder |-> patient_folder, outcome |-> outcome]),
             !.df_main = table,
             !.csv = IF outcome = "ok" /\ batch.save_intermediate THEN Some(table) ELSE @,
             !.all_results = IF outcome = "ok" THEN Append(@, patient_folder) ELSE @,
             !.successful = IF outcome = "ok" THEN @ + 1 ELSE @,
             !.failed = IF outcome # "ok" /\ Caught(outcome) THEN @ + 1 ELSE @,
             !.i = @ + 1,
             !.pc = IF outcome = "ok" \/ Caught(outcome) THEN "loop" ELSE "raised"]
    /\ UNCHANGED <<fracnd_vars, frame>>

\* lines 378-392: the table saved and the summary returned
BatchReturn ==
    /\ batch.pc = "loop"
    /\ batch.i = Len(Remaining(batch))
    /\ batch' = [batch EXCEPT
          !.pc = "returned",
          !.csv = Some(batch.df_main),
          !.summary = [total_patients |-> Len(batch.patient_folders),
                       successful |-> batch.successful,
                       failed |-> batch.failed,
                       success_rate |->
                          IF batch.patient_folders = <<>> THEN RZero
                          ELSE Rat(batch.successful * 100, Len(batch.patient_folders)),
                       detailed_results |-> batch.all_results]]
    /\ UNCHANGED <<fracnd_vars, frame>>

BatchCalls ==
    /\ batch.pc \in {"idle", "returned"}
    /\ \E dataset \in SUBSET (1..MaxPatients), start_from \in 0..(MaxPatients + 1),
          save_intermediate \in BOOLEAN :
             BatchCall(dataset, start_from, save_intermediate)

NextBatch ==
    \/ BatchCalls
    \/ \E outcome \in Outcomes : AnalyzePatient(outcome)
    \/ BatchReturn

SpecBatch == InitBatch /\ [][NextBatch]_vars

----------------------------------------------------------------------------
(* crop_segmentation and crop_image (src/fracnd.py)                         *)

\* shapes of the 3D arrays that are cropped
CropShapes == {<<2, 2, 2>>, <<3, 1, 2>>}
Segmentations == UNION {VolumesOf(sh) : sh \in CropShapes}
\* the images cropped with a segmentation's box: ones, and the ramp 1, 2, ...
ImagesOf(shape) ==
    {Solid(shape, 1), [shape |-> shape, data |-> [q \in 1..Size(shape) |-> q]]}

\* np.nonzero(array): the index tuples of the elements that are not zero
Nonzero(array) == {c \in Cells(array.shape) : At(array, c) # 0}

\* the elements of a one-dimensional array, in order
IndexArray(f) == SubSeq(f, 1, Len(f))

\* line 277: np.min(nonzero, axis=1)
Minima(array) ==
    LET nonzero == Nonzero(array)
    IN IndexArray([i \in Dims(array.shape) |-> SetMin({c[i] : c \in nonzero})])

\* the largest indices themselves, the slice's exclusive end not allowed for
Maxima_Inclusive(array) ==
    LET nonzero == Nonzero(array)
    IN IndexArray([i \in Dims(array.shape) |-> SetMax({c[i] : c \in nonzero})])

\* line 278: np.max(nonzero, axis=1) + 1
Maxima(array) ==
    LET nonzero == Nonzero(array)
    IN IndexArray([i \in Dims(array.shape) |-> SetMax({c[i] : c \in nonzero}) + 1])

\* array[minima[0]:maxima[0], minima[1]:maxima[1], minima[2]:maxima[2]]: a
\* slice's ends are clipped to the array, an empty range has length 0
Slice(array, minima, maxima) ==
    LET lo == IndexArray([i \in Dims(array.shape) |-> Min(minima[i], array.shape[i])])
        hi == IndexArray([i \in Dims(array.shape) |-> Min(maxima[i], array.shape[i])])
        shape == IndexArray([i \in Dims(array.shape) |-> Max(hi[i] - lo[i], 0)])
    IN [shape |-> shape,
        data |-> IndexArray([q \in 1..Size(shape) |->
                    LET c == Unravel(q - 1, shape)
                    IN At(array, [i \in Dims(shape) |-> c[i] + lo[i]])])]

\* lines 287-296
crop_image(array, minima, maxima) == Slice(array, minima, maxima)

NoCrop == [pc |-> "idle", array |-> NoVolume, return_indices |-> FALSE,
           cropped_array |-> NoVolume, minima |-> <<>>, maxima |-> <<>>,
           image |-> NoVolume, cropped_image |-> NoVolume, err |-> NoError]

InitCrop ==
    /\ cfg \in {c \in ScanConfigs : c.subsample = None /\ ~c.histogram /\ c.multiprocess}
    /\ Constructed

\* lines 268-284: np.min of the empty index arrays of an all-zero array raises
crop_segmentation(array, return_indices) ==
    /\ frame.pc = "idle"
    /\ IF Nonzero(array) = {}
       THEN frame' = [NoCrop EXCEPT !.pc = "raised", !.array = array,
                                    !.return_indices = return_indices,
                                    !.err = "ValueError"]
       ELSE LET minima == Minima(array)
                maxima == Maxima(array)
            IN frame' = [NoCrop EXCEPT
                           !.pc = "returned", !.array = array,
                           !.return_indices = return_indices,
                           !.cropped_array = Slice(array, minima, maxima),
                           !.minima = IF return_indices THEN minima ELSE <<>>,
                           !.maxima = IF return_indices THEN maxima ELSE <<>>]
    /\ UNCHANGED <<fracnd_vars, batch>>

\* crop_image called with the indices crop_segmentation returned
CropImage(image) ==
    /\ frame.pc = "returned"
    /\ frame.return_indices
    /\ frame.image = NoVolume
    /\ frame' = [frame EXCEPT !.image = image,
                              !.cropped_image = crop_image(image, frame.minima, frame.maxima)]
    /\ UNCHANGED <<fracnd_vars, batch>>

NextCrop ==
    \/ /\ frame.pc = "idle"
       /\ \E array \in Segmentations, return_indices \in BOOLEAN :
             crop_segmentation(array, return_indices)
    \/ /\ frame.pc = "returned"
       /\ \E image \in ImagesOf(frame.array.shape) : CropImage(image)

SpecCrop == InitCrop /\ [][NextCrop]_vars

----------------------------------------------------------------------------
(* convert_nii_file (src/nii_converter/converter.py)                        *)

\* calls of convert_nii_file made in a row on one input
MaxConversions == 2

\* what the body of the try block does: it completes, nib.load or a fix
\* raises before anything is written, or nib.save raises
ConvertOutcomes == {"ok", "load_error", "save_error"}

\* the output_path argument: None, or an existing directory
OutputArgs == {"None", "dir"}
\* lines 105-111: the file the output goes to, beside the input or in the
\* directory
OutputPath(output_path) == IF output_path = "None" THEN "beside" ELSE "in_dir"
OutputPaths == {OutputPath(a) : a \in OutputArgs}

\* a file, by the call that wrote it (0: it was there before the first call)
NoFile == None
File(written_by, complete) == Some([written_by |-> written_by, complete |-> complete])

NoResult == [success |-> FALSE, skipped |-> FALSE, error |-> FALSE]
NoConvert == [pc |-> "idle", input_exists |-> FALSE, is_nii |-> FALSE,
              files |-> [p \in OutputPaths |-> NoFile],
              output_path |-> "None", check_existing |-> FALSE,
              before |-> [p \in OutputPaths |-> NoFile], loads |-> 0, loads_before |-> 0,
              saves |-> 0, results |-> <<>>, paths |-> <<>>]

InitConvert ==
    /\ cfg \in {c \in ScanConfigs : c.subsample = None /\ ~c.histogram /\ c.multiprocess}
    /\ scales = <<>>
    /\ Ns = <<>>
    /\ lacunarity_spectrum = <<>>
    /\ popt = NoFit
    /\ ls_popt = NoFit
    /\ scale_ix = 0
    /\ input_array = NoVolume
    /\ args = NoArgs
    /\ scan = NoScan
    /\ fit_pairs = <<>>
    /\ ret = NoReturn
    /\ err = NoError
    /\ pc = "idle"
    /\ batch = NoBatch
    /\ \E input_exists, is_nii \in BOOLEAN, existing \in SUBSET OutputPaths :
          frame = [NoConvert EXCEPT
                     !.input_exists = input_exists, !.is_nii = is_nii,
                     !.files = [p \in OutputPaths |->
                                  IF p \in existing THEN File(0, TRUE) ELSE NoFile]]

\* the check of lines 113-116 left out
SkipsExisting_Never(check_existing, output) == FALSE

\* lines 113-116: the output is there and check_existing is set
SkipsExisting(check_existing, output) == check_existing /\ output # NoFile

\* lines 88-170
convert_nii_file(output_path, check_existing, outcome) ==
    /\ frame.pc \in {"idle", "returned"}
    /\ Len(frame.results) < MaxConversions
    /\ LET path == OutputPath(output_path)
           call == [frame EXCEPT !.pc = "returned", !.output_path = output_path,
                                 !.check_existing = check_existing,
                                 !.before = frame.files, !.loads_before = frame.loads,
                                 !.paths = Append(@, path)]
           k == Len(frame.results) + 1
       IN IF ~frame.input_exists \/ ~frame.is_nii
          THEN frame' = [call EXCEPT !.results = Append(@, [NoResult EXCEPT !.error = TRUE])]
          ELSE IF SkipsExisting(check_existing, frame.files[path])
          THEN frame' = [call EXCEPT !.results =
                            Append(@, [NoResult EXCEPT !.success = TRUE, !.skipped = TRUE])]
          ELSE IF outcome = "load_error"
          THEN frame' = [call EXCEPT !.loads = @ + 1,
                            !.results = Append(@, [NoResult EXCEPT !.error = TRUE])]
          ELSE IF outcome = "save_error"
          THEN \E written \in BOOLEAN :
                  frame' = [call EXCEPT !.loads = @ + 1,
                               !.files[path] = IF written THEN File(k, FALSE) ELSE @,
                               !.results = Append(@, [NoResult EXCEPT !.error = TRUE])]
          ELSE frame' = [call EXCEPT !.loads = @ + 1, !.saves = @ + 1,
                            !.files[path] = File(k, TRUE),
                            !.results = Append(@, [NoResult EXCEPT !.success = TRUE])]
    /\ UNCHANGED <<fracnd_vars, batch>>

NextConvert ==
    \E output_path \in OutputArgs, check_existing \in BOOLEAN, outcome \in ConvertOutcomes :
        convert_nii_file(output_path, check_existing, outcome)

SpecConvert == InitConvert /\ [][NextConvert]_vars

----------------------------------------------------------------------------
(* affine_registration (src/registration_tool/registration.py)              *)

\* the stages of the try block, in program order
Stages == <<"load", "center_of_mass", "translation", "rigid", "affine", "transform",
            "save", "finish">>
Optimisations == {"translation", "rigid", "affine"}

\* an affine map, by the stage that computed it and the affine it started from
NoAffine == None
AffineOf(stage, starting_affine) == Some([stage |-> stage, start |-> starting_affine])

\* every optimisation started from the centre-of-mass affine
StartingAffine_CenterOfMass(stage, transforms) == transforms["center_of_mass"]

\* lines 122, 132, 142: starting_affine is the affine of the stage before
StartingAffine(stage, transforms) ==
    IF stage = "translation" THEN transforms["center_of_mass"]
    ELSE IF stage = "rigid" THEN transforms["translation"]
    ELSE transforms["rigid"]

NoRegistration ==
    [pc |-> "idle", output_file |-> FALSE, show_plots |-> FALSE, ndim |-> <<3, 3>>,
     transforms |-> [s \in {"center_of_mass"} \cup Optimisations |-> NoAffine],
     starting |-> [s \in Optimisations |-> NoAffine],
     transformed |-> NoAffine, output |-> NoFile, shown |-> FALSE,
     done |-> <<>>,
     result |-> [success |-> FALSE, error |-> FALSE]]

InitRegistration ==
    /\ cfg \in {c \in ScanConfigs : c.subsample = None /\ ~c.histogram /\ c.multiprocess}
    /\ Constructed

\* lines 61-82: the call, up to the try block
affine_registration(output_file, show_plots, ndim) ==
    /\ frame.pc = "idle"
    /\ frame' = [NoRegistration EXCEPT !.pc = "load", !.output_file = output_file,
                                       !.show_plots = show_plots, !.ndim = ndim]
    /\ UNCHANGED <<fracnd_vars, batch>>

\* the stage after a completed one: nothing is saved without output_file
NextStage(stage, output_file) ==
    IF stage = "load" THEN "center_of_mass"
    ELSE IF stage = "center_of_mass" THEN "translation"
    ELSE IF stage = "translation" THEN "rigid"
    ELSE IF stage = "rigid" THEN "affine"
    ELSE IF stage = "affine" THEN "transform"
    ELSE IF stage = "transform" THEN (IF output_file THEN "save" ELSE "finish")
    ELSE IF stage = "save" THEN "finish"
    ELSE "returned"

\* lines 84-170: one stage of the try block completes
StageCompletes ==
    /\ frame.pc \in Range(Stages)
    /\ LET stage == frame.pc
           after == [frame EXCEPT !.pc = NextStage(stage, frame.output_file),
                                  !.done = Append(@, stage)]
       IN IF stage = "center_of_mass"
          THEN frame' = [after EXCEPT !.transforms[stage] = AffineOf(stage, NoAffine)]
          ELSE IF stage \in Optimisations
          THEN LET starting_affine == StartingAffine(stage, frame.transforms)
               IN frame' = [after EXCEPT !.starting[stage] = starting_affine,
                                         !.transforms[stage] = AffineOf(stage, starting_affine)]
          ELSE IF stage = "transform"
          THEN frame' = [after EXCEPT !.transformed = frame.transforms["affine"]]
          ELSE IF stage = "save"
          THEN frame' = [after EXCEPT !.output = File(1, TRUE)]
          ELSE IF stage = "finish"
          THEN frame' = [after EXCEPT !.shown = frame.show_plots,
                                      !.result = [success |-> TRUE, error |-> FALSE]]
          ELSE frame' = after
    /\ UNCHANGED <<fracnd_vars, batch>>

\* lines 185-192: a stage raises and the handler returns the failure; a save
\* that raises may have left a part of the file
StageFails ==
    /\ frame.pc \in Range(Stages)
    /\ \E written \in BOOLEAN :
          /\ written => frame.pc = "save"
          /\ frame' = [frame EXCEPT !.pc = "returned",
                                    !.output = IF written THEN File(1, FALSE) ELSE @,
                                    !.result = [success |-> FALSE, error |-> TRUE]]
    /\ UNCHANGED <<fracnd_vars, batch>>

NextRegistration ==
    \/ \E output_file, show_plots \in BOOLEAN, ndim \in {3, 4} \X {3, 4} :
          affine_registration(output_file, show_plots, ndim)
    \/ StageCompletes
    \/ StageFails

SpecRegistration == InitRegistration /\ [][NextRegistration]_vars

----------------------------------------------------------------------------
(* analyze_intensity_lacunarity, the crop and the mask                      *)
(* (src/fractal_analysis/analyzer.py)                                       *)

\* array[k] of an array of at least one dimension: the k-th slice along the
\* first axis, k from 0
SubArray(array, k) ==
    LET shape == Tail(array.shape)
    IN [shape |-> shape,
        data |-> [q \in 1..Size(shape) |-> array.data[k * Size(shape) + q]]]

\* a * b by numpy's broadcasting, for b of the shape of a or of a's trailing
\* dimensions: b is repeated along the leading axis
Multiply(a, b) ==
    [shape |-> a.shape,
     data |-> [q \in 1..Size(a.shape) |->
                  a.data[q] * b.data[((q - 1) % Size(b.shape)) + 1]]]

\* the number of targets of the assignment cropped_seg, _, _ = ...
UnpackTargets == 3

NoMask == [pc |-> "idle", image_data |-> NoVolume, seg_data |-> NoVolume,
           minima |-> <<>>, maxima |-> <<>>, cropped_image |-> NoVolume,
           cropped_seg |-> NoVolume, masked_image |-> NoVolume, err |-> NoError]

InitMask ==
    /\ cfg \in {c \in ScanConfigs : c.subsample = None /\ ~c.histogram /\ c.multiprocess}
    /\ Constructed

\* lines 158-172, called as analyze_patient_folder does, with the minima and
\* maxima of the segmentation: crop_segmentation(seg_data) returns the
\* cropped array alone, and unpacking an array into three targets iterates
\* over its first axis
CropAndMask(image_data, seg_data) ==
    /\ frame.pc = "idle"
    /\ LET minima == Minima(seg_data)
           maxima == Maxima(seg_data)
           cropped_image == crop_image(image_data, minima, maxima)
           returned == Slice(seg_data, minima, maxima)
           call == [NoMask EXCEPT !.image_data = image_data, !.seg_data = seg_data,
                                  !.minima = minima, !.maxima = maxima,
                                  !.cropped_image = cropped_image]
       IN IF returned.shape[1] # UnpackTargets
          THEN frame' = [call EXCEPT !.pc = "raised", !.err = "ValueError"]
          ELSE LET cropped_seg == SubArray(returned, 0)
               IN frame' = [call EXCEPT !.pc = "masked", !.cropped_seg = cropped_seg,
                                        !.masked_image = Multiply(cropped_image, cropped_seg)]
    /\ UNCHANGED <<fracnd_vars, batch>>

NextMask ==
    \E seg_data \in {s \in Segmentations : Nonzero(s) # {}} :
        \E image_data \in ImagesOf(seg_data.shape) : CropAndMask(image_data, seg_data)

SpecMask == InitMask /\ [][NextMask]_vars

----------------------------------------------------------------------------
(* analyze_patient_folder and the row batch_analyze_dataset makes of its    *)
(* results (src/fractal_analysis/analyzer.py)                               *)

\* the modalities asked for, in the order of the list
Modalities == <<"t1", "t1ce", "t2">>
\* the LD values an analysis may give
LDValues == {RInt(1), RInt(2)}

NoEntry == None
ErrorEntry == Some([error |-> TRUE, LD |-> NaN])
LDEntry(LD) == Some([error |-> FALSE, LD |-> LD])

\* an exception of a modality's analysis leaves analyze_patient_folder
ModalityCaught_Nothing(outcome) == FALSE

\* lines 263-284: except Exception around the analysis of one modality
ModalityCaught(outcome) == TRUE

\* lines 357-364: the LD of a modality that has an entry without an error,
\* NaN otherwise
RowValue(entry) ==
    IF entry # NoEntry THEN (IF ~entry[1].error THEN entry[1].LD ELSE NaN) ELSE NaN

NoPatient == [pc |-> "idle", seg_file |-> FALSE, present |-> {}, m |-> 0,
              modalities |-> [mod \in Range(Modalities) |-> NoEntry],
              analysed |-> <<>>, outcomes |-> <<>>,
              row |-> [mod \in Range(Modalities) |-> NaN], stored |-> FALSE,
              saved |-> FALSE,
              successful |-> 0, failed |-> 0]

InitPatient ==
    /\ cfg \in {c \in ScanConfigs : c.subsample = None /\ ~c.histogram /\ c.multiprocess}
    /\ Constructed

\* lines 208-250, called by line 342: the segmentation is found, loaded and
\* analysed, outside any handler of analyze_patient_folder
analyze_patient_folder(seg_file, present, outcome) ==
    /\ frame.pc = "idle"
    /\ LET call == [NoPatient EXCEPT !.seg_file = seg_file, !.present = present]
       IN IF ~seg_file \/ outcome = "error"
          THEN frame' = [call EXCEPT !.pc = "raised"]
          ELSE frame' = [call EXCEPT !.pc = "modalities", !.m = 1]
    /\ UNCHANGED <<fracnd_vars, batch>>

\* lines 253-284, one pass of the loop over the modalities
AnalyzeModality(outcome, LD) ==
    /\ frame.pc = "modalities"
    /\ frame.m <= Len(Modalities)
    /\ LET modality == Modalities[frame.m]
       IN IF modality \notin frame.present
          THEN frame' = [frame EXCEPT !.m = @ + 1]
          ELSE IF outcome = "ok"
          THEN frame' = [frame EXCEPT !.m = @ + 1,
                                      !.analysed = Append(@, modality),
                                      !.outcomes = Append(@, outcome),
                                      !.modalities[modality] = LDEntry(LD)]
          ELSE IF ModalityCaught(outcome)
          THEN frame' = [frame EXCEPT !.m = @ + 1,
                                      !.analysed = Append(@, modality),
                                      !.outcomes = Append(@, outcome),
                                      !.modalities[modality] = ErrorEntry]
          ELSE frame' = [frame EXCEPT !.pc = "raised",
                                      !.analysed = Append(@, modality),
                                      !.outcomes = Append(@, outcome)]
    /\ UNCHANGED <<fracnd_vars, batch>>

\* line 286: the results are returned
PatientReturn ==
    /\ frame.pc = "modalities"
    /\ frame.m > Len(Modalities)
    /\ frame' = [frame EXCEPT !.pc = "returned"]
    /\ UNCHANGED <<fracnd_vars, batch>>

\* lines 346-376: the pass of batch_analyze_dataset's loop that made the
\* call: the row is built and appended and the patient counted, or the
\* exception of the call, or of the intermediate to_csv, is counted
CountPatient(save) ==
    /\ frame.pc \in {"returned", "raised"}
    /\ IF frame.pc = "returned"
       THEN frame' = [frame EXCEPT
                        !.pc = "counted",
                        !.row = [mod \in Range(Modalities) |->
                                    RowValue(frame.modalities[mod])],
                        !.stored = TRUE,
                        !.saved = (save = "ok"),
                        !.successful = IF save = "ok" THEN @ + 1 ELSE @,
                        !.failed = IF save = "ok" THEN @ ELSE @ + 1]
       ELSE frame' = [frame EXCEPT !.pc = "counted", !.failed = @ + 1]
    /\ UNCHANGED <<fracnd_vars, batch>>

NextPatient ==
    \/ \E seg_file \in BOOLEAN, present \in SUBSET Range(Modalities),
          outcome \in {"ok", "error"} :
             analyze_patient_folder(seg_file, present, outcome)
    \/ \E outcome \in {"ok", "error"}, LD \in LDValues : AnalyzeModality(outcome, LD)
    \/ PatientReturn
    \/ \E save \in {"ok", "save_error"} : CountPatient(save)

SpecPatient == InitPatient /\ [][NextPatient]_vars

----------------------------------------------------------------------------
(* Properties *)

IsEmptyVolume(vol) == vol # NoVolume /\ \A q \in DOMAIN vol.data : vol.data[q] = 0

\* the step __call__ scans a scale with
StepOf(scale) == IF cfg.stride = None THEN scale ELSE cfg.stride[1]

\* the results of every window of a scan without subsampling, in np.ndindex
\* order
AllWindows(vol, window_size, step_size) ==
    LET wc == window_counts(vol.shape, window_size, step_size)
    IN [k \in 1..NdindexLen(wc) |->
           Worker(vol, WindowCells(vol, Unravel(k - 1, wc), window_size, step_size))]

\* C1: __call__ on a volume whose elements are all zero raises before any
\* scale is scanned: no window is enumerated or evaluated, no pool is
\* created, and no scales, series or fit is stored on the instance.
C1_EmptyVolumeRaises ==
    IsEmptyVolume(input_array) =>
        /\ pc = "raised"
        /\ err = "ValueError"
        /\ scan = NoScan
        /\ scales = <<>> /\ Ns = <<>> /\ lacunarity_spectrum = <<>>
        /\ popt = NoFit /\ ls_popt = NoFit
        /\ cfg \in CallConfigs

C1_Witness == IsEmptyVolume(input_array) /\ pc = "raised"

Ascending(s) == \A i, j \in DOMAIN s : i < j => s[i] < s[j]
Descending(s) == \A i, j \in DOMAIN s : i < j => s[i] > s[j]

\* entry i of the series is what the scan of scales[i] computes (the scans
\* with subsampling depend on the draws and are not compared)
SeriesMatchScales ==
    /\ Len(Ns) = Len(scales)
    /\ Len(lacunarity_spectrum) = Len(scales)
    /\ cfg.subsample = None =>
          \A i \in DOMAIN scales :
             LET w == AllWindows(input_array, scales[i], StepOf(scales[i]))
                 T == SeqSum([k \in DOMAIN w |-> w[k].touched])
                 m == NormalisedMass([k \in DOMAIN w |-> w[k].mass], T)
                 shape == input_array.shape
             IN /\ Ns[i] = BoxCount(T, Norm(box_window_counts(shape, scales[i]),
                                            window_counts(shape, scales[i], StepOf(scales[i])),
                                            None))
                /\ lacunarity_spectrum[i] = Lacunarity(UniqueDistribution(m))

ScanShape == input_array.shape
Touched == {t \in DOMAIN scan.res : scan.res[t].touched = 1}
Untouched == DOMAIN scan.res \ Touched
Homogeneous(vol) ==
    /\ vol # NoVolume
    /\ \A q \in DOMAIN vol.data : vol.data[q] = vol.data[1] /\ vol.data[q] > 0

\* C3 as stated: along dimension i the scan enumerates
\* floor((shape[i] - s)/d) + 1 positions, none when that is not positive,
\* and every window handed to the worker has exactly s elements along
\* every dimension.
C3_Original ==
    (pc \in {"enumerate", "returned"} /\ ~IsEmptyVolume(input_array)) =>
        /\ \A i \in Dims(ScanShape) :
              scan.window_counts[i]
                 = Max(0, ((ScanShape[i] - scan.window_size) \div scan.step_size) + 1)
        /\ \A t \in DOMAIN scan.res : \A i \in Dims(ScanShape) :
              Cardinality({c[i] : c \in scan.res[t].cells}) = scan.window_size

\* C4 as stated: the returned N is the integer part of the exact product
\* T * norm, T the number of touched evaluated windows and norm the ratio of
\* the products of the disjoint and the sliding counts, divided by the
\* subsample rate; with step = window size and no subsampling N = T.
C4_Original ==
    pc = "returned" =>
        LET T == Cardinality(Touched)
            box == SeqProd(box_window_counts(ScanShape, scan.window_size))
            win == SeqProd(window_counts(ScanShape, scan.window_size, scan.step_size))
            num == IF cfg.subsample = None THEN 1 ELSE cfg.subsample[1].num
            den == IF cfg.subsample = None THEN 1 ELSE cfg.subsample[1].den
        IN /\ ret.N = (T * box * den) \div (win * num)
           /\ (scan.step_size = scan.window_size /\ cfg.subsample = None) => ret.N = T

\* a filled cube of side 2^k scanned by disjoint boxes of the given size
CubeScan(size) ==
    /\ pc \in {"returned", "raised"}
    /\ Homogeneous(input_array)
    /\ \A i \in Dims(ScanShape) : ScanShape[i] = ScanShape[1]
    /\ ScanShape[1] \in {Pow(2, k) : k \in 0..MaxSize}
    /\ cfg.subsample = None
    /\ scan.step_size = scan.window_size
    /\ scan.window_size = size

\* C5: disjoint box counting of a filled volume of shape (2^k)^d, without
\* subsampling, returns N = 1 at window size 2^k and N = 2^(k*d) at window
\* size 1.
C5_SolidCounts ==
    /\ CubeScan(ScanShape[1]) => pc = "returned" /\ ret.N = 1
    /\ CubeScan(1) => pc = "returned" /\ ret.N = Pow(ScanShape[1], Len(ScanShape))

C5_Witness ==
    /\ CubeScan(1)
    /\ ScanShape = <<4, 4>>
    /\ pc = "returned"
    /\ ret.N = 16

\* the normalised mass of evaluated window t
MassOf(t) == Rat(scan.res[t].mass, Cardinality(Touched))

\* the distribution is that of the normalised masses of the windows in W:
\* its centers are their distinct values, each with its share of W
UniqueOver(W) ==
    /\ Range(ret.dist.bin_centers) = {MassOf(t) : t \in W}
    /\ \A j \in DOMAIN ret.dist.bin_centers :
          ret.dist.p[j] = Rat(Cardinality({t \in W : MassOf(t) = ret.dist.bin_centers[j]}),
                              Cardinality(W))

\* C6 (as amended): the distribution is built from the masses of all the
\* evaluated windows, touched or not, each divided by the number of touched
\* windows; the untouched windows carry probability weight (in the lowest
\* histogram bin, their mass being the minimum 0).  With no touched window
\* every quotient is NaN and so is the one center of the distribution.
C6_AllWindowsWeigh ==
    pc = "returned" =>
        IF Touched = {}
        THEN ret.dist.bin_centers = <<NaN>> /\ ret.dist.p = <<ROne>>
        ELSE IF cfg.histogram
        THEN /\ \A j \in DOMAIN ret.dist.p :
                   RMul(ret.dist.p[j], RInt(Len(scan.res))).d = 1
             /\ Untouched # {} =>
                   ~RLess(ret.dist.p[1], Rat(Cardinality(Untouched), Len(scan.res)))
        ELSE UniqueOver(DOMAIN scan.res)

C6_Witness ==
    /\ pc = "returned"
    /\ ~cfg.histogram
    /\ Touched # {}
    /\ Untouched # {}
    /\ ret.dist.bin_centers[1] = RZero

\* C6 as stated: only the touched windows contribute values and weight.
C6_Original ==
    (pc = "returned" /\ Touched # {} /\ ~cfg.histogram) => UniqueOver(Touched)

\* C7: on a volume whose elements all have one strictly positive value, a
\* scan with a window not larger than the smallest dimension returns
\* lacunarity exactly 1 and the distribution has variance 0, for every step
\* and in both distribution modes.
C7_HomogeneousLacunarity ==
    (/\ pc = "returned"
     /\ Homogeneous(input_array)
     /\ scan.window_size <= SeqMin(ScanShape)) =>
        /\ ret.lacunarity = ROne
        /\ Variance(ret.dist) = RZero

C7_Witness ==
    /\ pc = "returned"
    /\ Homogeneous(input_array)
    /\ scan.window_size <= SeqMin(ScanShape)
    /\ scan.step_size > 1
    /\ Len(scan.res) > 1
    /\ cfg.histogram
    /\ ret.lacunarity = ROne

\* C8 as stated: the lacunarity a scan of a non-empty volume returns is
\* never NaN or infinite.
C8_Original ==
    (pc = "returned" /\ ~IsEmptyVolume(input_array)) => IsRat(ret.lacunarity)

\* a call of linear_fit has ended
FitEnded == pc \in {"returned", "raised"} /\ args.vals # <<>>
NaNGiven == \E i \in DOMAIN args.vals : ~IsRat(args.vals[i])
\* the distinct values > 0 of the series
KeptVals == {v \in Range(args.vals) : IsRat(v) /\ v.n > 0}
\* the smallest scale at which v occurs in the series
FirstScale(v) == SetMin({args.scales[i] : i \in {k \in DOMAIN args.vals : args.vals[k] = v}})

\* C9 as stated: the pairs given to the regression are one per distinct
\* value v > 0 of the series, each with the smallest scale at which v
\* occurred.
C9_Original ==
    (FitEnded /\ ~NaNGiven) =>
        /\ Len(fit_pairs) = Cardinality(KeptVals)
        /\ {<<fit_pairs[j].scale, fit_pairs[j].val>> : j \in DOMAIN fit_pairs}
              = {<<FirstScale(v), v>> : v \in KeptVals}

\* C10 (as amended): linear_fit raises whenever the series contains a NaN
\* or fewer than 3 distinct values > 0 remain (np.polyfit with cov=True
\* needs more points than coefficients); whenever 3 or more remain, on at
\* least two distinct scales, it returns the fit of the pairs it kept.
C10_FitNeedsThreePairs ==
    FitEnded =>
        /\ (NaNGiven \/ Cardinality(KeptVals) < 3) => pc = "raised"
        /\ (/\ ~NaNGiven
            /\ Cardinality(KeptVals) >= 3
            /\ Cardinality({fit_pairs[j].scale : j \in DOMAIN fit_pairs}) >= 2) =>
               /\ pc = "returned"
               /\ ret.fit.set
               /\ ret.fit.pairs = fit_pairs

C10_Witness ==
    /\ FitEnded
    /\ pc = "returned"
    /\ Cardinality(KeptVals) = 3
    /\ ret.fit.set

\* C10 as stated: linear_fit raises exactly when fewer than 2 pairs
\* remain (here for pairs on distinct scales).
C10_Original ==
    (/\ FitEnded
     /\ ~NaNGiven
     /\ Cardinality({fit_pairs[j].scale : j \in DOMAIN fit_pairs}) = Len(fit_pairs)) =>
        (pc = "raised" <=> Cardinality(KeptVals) < 2)

\* what the worker pool computes at one scale of the running call, without
\* subsampling: the windows in np.ndindex order, N and the lacunarity
PoolScan(scale) ==
    LET w == AllWindows(input_array, scale, StepOf(scale))
        T == SeqSum([k \in DOMAIN w |-> w[k].touched])
        m == NormalisedMass([k \in DOMAIN w |-> w[k].mass], T)
        shape == input_array.shape
    IN [windows |-> Len(w),
        N |-> BoxCount(T, Norm(box_window_counts(shape, scale),
                               window_counts(shape, scale, StepOf(scale)), None)),
        lacunarity |-> IF T = 0 THEN NaN ELSE Lacunarity(UniqueDistribution(m))]

\* the call with the worker pool completes on the volume and the scales of
\* the running call: every scale has a window and both fits succeed
PoolRunCompletes ==
    LET counts == [i \in DOMAIN scales |-> RInt(PoolScan(scales[i]).N)]
        lacs == [i \in DOMAIN scales |-> PoolScan(scales[i]).lacunarity]
    IN /\ \A i \in DOMAIN scales : PoolScan(scales[i]).windows > 0
       /\ FitOutcomes(scales, counts) = {"ok"}
       /\ FitOutcomes(scales, lacs) = {"ok"}

CallEnded == pc \in {"done", "raised"} /\ ~IsEmptyVolume(input_array)

\* C11 as stated: without subsampling, a call with multiprocess = False
\* completes whenever the same call with the worker pool does, and stores
\* the same scales, box counts, lacunarities and fits.
C11_Original ==
    (/\ CallEnded
     /\ ~cfg.multiprocess
     /\ cfg.subsample = None
     /\ PoolRunCompletes) =>
        /\ pc = "done"
        /\ SeriesMatchScales
        /\ popt.set /\ ls_popt.set

\* C12 as stated: no step of a call changes the configuration attributes
\* of the instance (max_box_size, min_box_size, stride, n_samples,
\* subsample), so that a later call starts from the constructor's values.
C12_Original == [][cfg' = cfg]_vars

\* C13: no step of a call or of a scan changes an element of the volume it
\* was given, in either execution mode.
C13_InputUnmodified ==
    [][input_array # NoVolume => input_array' = input_array]_vars

\* a call without the pool has ended after running the worker on views of
\* a volume with non-zero elements
C13_Witness ==
    /\ CallEnded
    /\ ~cfg.multiprocess
    /\ scan.res # <<>>
    /\ \E t \in DOMAIN scan.res : scan.res[t].touched = 1

\* C14: on every window the worker returns touched in {0, 1}, touched = 1
\* exactly when an element is strictly greater than 0, and mass the sum of
\* the raw elements; on a window without negative elements touched = 1
\* exactly when mass > 0.
C14_WorkerResult ==
    (pc = "returned" /\ Len(scan.res) = 1) =>
        LET r == scan.res[1]
            d == input_array.data
        IN /\ r.touched \in {0, 1}
           /\ r.touched = 1 <=> \E q \in DOMAIN d : d[q] > 0
           /\ r.mass = SeqSum(d)
           /\ (\A q \in DOMAIN d : d[q] >= 0) => (r.touched = 1 <=> r.mass > 0)

\* a window with a negative element, no positive one: untouched, mass < 0
C14_Witness ==
    /\ pc = "returned"
    /\ Len(scan.res) = 1
    /\ \E q \in DOMAIN input_array.data : input_array.data[q] < 0
    /\ scan.res[1].touched = 0
    /\ scan.res[1].mass < 0

\* the exponents of the running call: max_box_size as __call__ left it
MaxExp == cfg.max_box_size[1]
MinExp == cfg.min_box_size

\* C15 as stated: the scales of a call are distinct integers between
\* 2^min_exp and 2^max_exp, both ends are among them when n_samples >= 2,
\* and when max_exp is floor(log2(min(shape))) no scale exceeds the
\* smallest dimension of the volume.
C15_Original ==
    (pc # "idle" /\ ~IsEmptyVolume(input_array)) =>
        /\ \A i, j \in DOMAIN scales : i # j => scales[i] # scales[j]
        /\ \A i \in DOMAIN scales :
              Pow(2, MinExp) <= scales[i] /\ scales[i] <= Pow(2, MaxExp)
        /\ cfg.n_samples >= 2 =>
              Pow(2, MaxExp) \in Range(scales) /\ Pow(2, MinExp) \in Range(scales)
        /\ MaxExp = Log2Floor(SeqMin(input_array.shape)) =>
              \A i \in DOMAIN scales : scales[i] <= SeqMin(input_array.shape)

\* the call of greyscale_to_binary that returned: its array, its levels,
\* the length of the added axis and the elements of the output
GreyReturned ==
    /\ pc = "returned"
    /\ ret.array # NoVolume
    /\ Cardinality(Range(input_array.data)) > 1
Levels == args.levels
Depth == ret.array.shape[Len(ret.array.shape)]
BinaryAt(i, k) == ret.array.data[(i - 1) * Depth + k + 1]
AxisSum(i) == SeqSum([k \in 1..Depth |-> BinaryAt(i, k - 1)])
\* floor((x - min) / (max - min) * levels) of element i, in exact arithmetic
Level(i) ==
    LET lo == SetMin(Range(input_array.data))
        hi == SetMax(Range(input_array.data))
    IN ((input_array.data[i] - lo) * Levels) \div (hi - lo)
LevelIsExact(i) ==
    LET lo == SetMin(Range(input_array.data))
        hi == SetMax(Range(input_array.data))
    IN ((input_array.data[i] - lo) * Levels) % (hi - lo) = 0

\* C16 (as amended): the output is a one-hot encoding: it has the shape of
\* the array with one axis of length levels + 1 added, every position holds
\* exactly one 1 along that axis, so the sum over the axis is 1, and the 1
\* lies at the quantised intensity floor((x - min)/(max - min) * levels),
\* or one below it when that product is an integer the float64 product
\* falls short of.
C16_OneHot ==
    GreyReturned =>
        /\ ret.array.shape = Append(input_array.shape, Levels + 1)
        /\ \A i \in DOMAIN input_array.data :
              /\ AxisSum(i) = 1
              /\ \E k \in 0..(Depth - 1) :
                    /\ BinaryAt(i, k) = 1
                    /\ k = Level(i) \/ (k = Level(i) - 1 /\ LevelIsExact(i))

C16_Witness ==
    /\ GreyReturned
    /\ Levels = MaxLevels
    /\ \E i \in DOMAIN input_array.data : Level(i) = 2 /\ BinaryAt(i, 2) = 1 /\ AxisSum(i) = 1

\* C16 as stated: the sum over the added axis is the quantised intensity
\* at every position.
C16_Original ==
    GreyReturned => \A i \in DOMAIN input_array.data : AxisSum(i) = Level(i)

\* the patient folders a run has called analyze_patient_folder on, in the
\* order of the calls
Attempted == [j \in DOMAIN batch.calls |-> batch.calls[j].patient_folder]
Failures == {j \in DOMAIN batch.calls : batch.calls[j].outcome # "ok"}

\* C17: a run of batch_analyze_dataset with start_from >= 0 never ends in
\* an exception of a patient's analysis; while it runs the patients
\* attempted are those from sorted position start_from on, in order, each
\* once, and when it returns all of them were attempted and every failure
\* is counted in failed.
C17_BatchContinues ==
    /\ batch.pc # "raised"
    /\ batch.pc \in {"loop", "returned"} =>
          /\ \A j \in DOMAIN batch.patient_folders :
                j > 1 => batch.patient_folders[j - 1] < batch.patient_folders[j]
          /\ Len(Attempted) <= Len(batch.patient_folders)
          /\ \A j \in DOMAIN Attempted :
                Attempted[j] = batch.patient_folders[batch.start_from + j]
          /\ batch.failed = Cardinality(Failures)
    /\ batch.pc = "returned" =>
          /\ Len(Attempted) = Max(0, Len(batch.patient_folders) - batch.start_from)
          /\ batch.summary.failed = Cardinality(Failures)

\* a run resumed past the first patient returned after a failure that was
\* followed by a successful patient
C17_Witness ==
    /\ batch.pc = "returned"
    /\ batch.start_from > 0
    /\ \E j, k \in DOMAIN batch.calls :
          /\ j < k
          /\ batch.calls[j].outcome = "error"
          /\ batch.calls[k].outcome = "ok"
    /\ batch.summary.failed >= 1

\* the volume is a cube (or a line, or a square) of ones
IsSolidCube(vol) ==
    /\ vol # NoVolume
    /\ \A i \in DOMAIN vol.shape : vol.shape[i] = vol.shape[1]
    /\ \A q \in DOMAIN vol.data : vol.data[q] = 1

\* the points lie on N(s) = c * s^(-D): their fitted slope is D
OnPowerLaw(pairs, c, D) ==
    \A j \in DOMAIN pairs : pairs[j].val.n * Pow(pairs[j].scale, D) = c * pairs[j].val.d

\* C18 as stated, for the cubes of ones of the model: analysed with
\* min_box_size = 1, n_samples = 7 and stride = None (disjoint windows), the
\* call completes and the box counts it fits lie on the power law
\* N(s) = size * s^(-d) of a d-dimensional solid, so that FD is d (3.0 for
\* the 64 x 64 x 64 volume).
C18_Original ==
    (/\ CallEnded
     /\ IsSolidCube(input_array)
     /\ cfg.min_box_size = 1
     /\ cfg.n_samples = 7
     /\ cfg.stride = None
     /\ Len(scales) >= PolyfitMinPoints) =>
        /\ pc = "done"
        /\ popt.set
        /\ OnPowerLaw(popt.pairs, Size(input_array.shape), Len(input_array.shape))

\* the series given to linear_fit is vals[i] = c * scales[i]^(-D) for a c > 0
PowerLawSeries(s, vals, D) ==
    \A i, j \in DOMAIN vals :
        /\ IsRat(vals[i]) /\ vals[i].n > 0
        /\ IsRat(vals[j]) /\ vals[j].n > 0
        /\ IF D >= 0
           THEN vals[i].n * Pow(s[i], D) * vals[j].d = vals[j].n * Pow(s[j], D) * vals[i].d
           ELSE vals[i].n * Pow(s[j], -D) * vals[j].d = vals[j].n * Pow(s[i], -D) * vals[i].d

DistinctScales(s) == \A i, j \in DOMAIN s : i # j => s[i] # s[j]

\* C19 as stated: linear_fit on an exact power-law series c * s^(-D) over
\* distinct scales (enough of them for np.polyfit) returns the slope +D when
\* invert_scales is True and -D when it is False.
C19_Original ==
    (FitEnded /\ Len(args.scales) >= PolyfitMinPoints) =>
        \A D \in (-MaxSlope)..MaxSlope :
            (DistinctScales(args.scales) /\ PowerLawSeries(args.scales, args.vals, D)) =>
                /\ pc = "returned"
                /\ ret.fit.slope = Some(IF args.invert_scales THEN D ELSE -D)

\* C19 amended: on an exact power-law series c * s^(-D) with D # 0 over at
\* least three distinct scales linear_fit returns the slope +D when
\* invert_scales is True and -D when it is False; with D = 0 (a constant
\* series, one unique value) or fewer than three scales it raises.
C19_PowerLawSlope ==
    FitEnded =>
        \A D \in (-MaxSlope)..MaxSlope :
            (DistinctScales(args.scales) /\ PowerLawSeries(args.scales, args.vals, D)) =>
                IF D # 0 /\ Len(args.scales) >= 3
                THEN /\ pc = "returned"
                     /\ ret.fit.slope = Some(IF args.invert_scales THEN D ELSE -D)
                ELSE pc = "raised"

\* a decaying power law of exponent 2 over three scales, fitted over log(s)
C19_Witness ==
    /\ pc = "returned"
    /\ Len(args.scales) = 3
    /\ DistinctScales(args.scales)
    /\ PowerLawSeries(args.scales, args.vals, 2)
    /\ ~args.invert_scales
    /\ ret.fit.slope = Some(-2)

\* the elements of the scanned volume that are not zero
NonZeroCells == {c \in Cells(input_array.shape) : At(input_array, c) # 0}

\* the cell of the grid of side s an element lies in
GridCell(c, s) == [i \in DOMAIN c |-> c[i] \div s]

\* C20 as stated: a scan with step = window size and no subsampling, at a
\* scale that fits the volume, puts every non-zero element inside an
\* evaluated window, and its box count N is the number of grid cells of
\* that side holding a non-zero element, whether or not the side divides
\* the dimensions.
C20_Original ==
    (/\ pc = "returned"
     /\ cfg.subsample = None
     /\ scan.step_size = scan.window_size
     /\ \A i \in DOMAIN input_array.shape : scan.window_size <= input_array.shape[i]) =>
        /\ \A c \in NonZeroCells : \E t \in DOMAIN scan.res : c \in scan.res[t].cells
        /\ ret.N = Cardinality({GridCell(c, scan.window_size) : c \in NonZeroCells})

\* the elements of the array that was cropped that are not zero
CropNonzero == {c \in Cells(frame.array.shape) : At(frame.array, c) # 0}
\* the smallest index of a non-zero element along each axis
CropOrigin(nonzero) == IndexArray([i \in 1..3 |-> SetMin({n[i] : n \in nonzero})])

\* C21: for a 3D array with a non-zero element crop_segmentation returns the
\* minimal bounding box: every non-zero element of the input is in the crop,
\* each of the six outer faces of the crop holds a non-zero element, and
\* crop_image with the returned minima and maxima gives an array of the
\* shape of the cropped segmentation.
C21_MinimalBox ==
    (frame.pc # "idle" /\ CropNonzero # {}) =>
        /\ frame.pc = "returned"
        /\ LET crop == frame.cropped_array
               nonzero == CropNonzero
               origin == CropOrigin(nonzero)
               cells == Cells(crop.shape)
           IN /\ \A n \in nonzero :
                    LET c == IndexArray([i \in 1..3 |-> n[i] - origin[i]])
                    IN c \in cells /\ At(crop, c) = At(frame.array, n)
              /\ \A i \in Dims(crop.shape) :
                    /\ \E c \in cells : c[i] = 0 /\ At(crop, c) # 0
                    /\ \E c \in cells : c[i] = crop.shape[i] - 1 /\ At(crop, c) # 0
        /\ frame.image # NoVolume =>
              frame.cropped_image.shape = frame.cropped_array.shape

\* a crop that is smaller than its array, and an image cropped with its box
C21_Witness ==
    /\ frame.pc = "returned"
    /\ frame.image # NoVolume
    /\ frame.cropped_array.shape # frame.array.shape
    /\ Size(frame.cropped_array.shape) > 1
    /\ frame.cropped_image.shape = frame.cropped_array.shape

\* the last call of convert_nii_file and the file it was to write
LastResult == frame.results[Len(frame.results)]
LastPath == frame.paths[Len(frame.paths)]

\* C22: convert_nii_file with check_existing = True on an existing .nii
\* input whose output already exists returns success and skipped, loads
\* nothing and leaves every file as it was; so of two calls in a row on the
\* same input and output the first of which converts, the second skips and
\* the conversion is performed once.
C22_SkipExisting ==
    (frame.pc = "returned" /\ frame.input_exists /\ frame.is_nii /\ frame.check_existing) =>
        /\ frame.before[LastPath] # NoFile =>
              /\ LastResult.success /\ LastResult.skipped
              /\ frame.loads = frame.loads_before
              /\ frame.files = frame.before
        /\ (/\ Len(frame.results) = 2
            /\ frame.paths[1] = frame.paths[2]
            /\ frame.results[1].success
            /\ ~frame.results[1].skipped) =>
              /\ LastResult.success /\ LastResult.skipped
              /\ frame.saves = 1
              /\ frame.files = frame.before

\* the second of two conversions in a row skipped the output of the first
C22_Witness ==
    /\ frame.pc = "returned"
    /\ frame.check_existing
    /\ Len(frame.results) = 2
    /\ frame.paths[1] = frame.paths[2]
    /\ frame.results[1].success /\ ~frame.results[1].skipped
    /\ frame.results[2].skipped
    /\ frame.files[LastPath] = File(1, TRUE)
    /\ frame.loads = 1

\* the stages completed so far are the first ones of the program order, the
\* save left out when there is no output file
InOrder(done) ==
    LET expected == IF frame.output_file THEN Stages
                    ELSE SelectSeq(Stages, LAMBDA s : s # "save")
    IN Len(done) <= Len(expected) /\ done = SubSeq(expected, 1, Len(done))

\* C23: affine_registration propagates no exception: a stage that fails
\* gives a result with success False and an error; and the output file is
\* written only after the translation, rigid and affine optimisations have
\* completed in that order, each started from the affine of the stage before.
C23_Registration ==
    frame.pc # "idle" =>
    /\ InOrder(frame.done)
    /\ (frame.pc = "returned" /\ Len(frame.done) < Len(Stages) /\ "finish" \notin Range(frame.done))
          => (~frame.result.success /\ frame.result.error)
    /\ (frame.pc = "returned" /\ "finish" \in Range(frame.done))
          => (frame.result.success /\ ~frame.result.error)
    /\ frame.output # NoFile =>
          /\ SubSeq(frame.done, 1, 5)
                = <<"load", "center_of_mass", "translation", "rigid", "affine">>
          /\ frame.starting["translation"] = frame.transforms["center_of_mass"]
          /\ frame.starting["rigid"] = frame.transforms["translation"]
          /\ frame.starting["affine"] = frame.transforms["rigid"]
          /\ frame.transforms["affine"] # NoAffine
          /\ frame.transformed = frame.transforms["affine"]

\* a registration that saved its output and returned success
C23_Witness ==
    /\ frame.pc = "returned"
    /\ frame.result.success
    /\ frame.output = File(1, TRUE)
    /\ frame.starting["affine"] = frame.transforms["rigid"]
    /\ frame.done = Stages

\* C24: in __call__ the scales are processed one after another: when the
\* scan of a scale starts, every window task of the scale before has
\* finished, its pool is closed and its (N, lacunarity) pair is appended;
\* tasks are unfinished and a pool is open only inside the scan of one scale.
C24_ScalesSequential ==
    [][/\ (pc = "loop" /\ pc' \in {"enumerate", "raised"} /\ scale_ix <= Len(scales)) =>
             /\ scan.pool # "open"
             /\ \A i \in DOMAIN scan.res : scan.res[i].done
             /\ Len(Ns) = scale_ix - 1
             /\ Len(lacunarity_spectrum) = scale_ix - 1
       /\ (pc' \in {"loop", "returned", "done"}) =>
             /\ scan'.pool # "open"
             /\ \A i \in DOMAIN scan'.res : scan'.res[i].done
       /\ (pc = "enumerate" /\ pc' = "enumerate") =>
             /\ scale_ix' = scale_ix
             /\ Len(Ns') = scale_ix - 1]_vars

\* the pool of the second scale is at work, the pair of the first appended
C24_Witness ==
    /\ pc = "enumerate"
    /\ scale_ix = 2
    /\ Len(Ns) = 1
    /\ scan.pool = "open"
    /\ \E i \in DOMAIN scan.res : ~scan.res[i].done

\* the windows a scan evaluated, by their position in np.ndindex order
EvaluatedAt(i) == Ravel(scan.res[i].index, scan.window_counts)
\* what the evaluated windows hold, whatever the workers did
ExpectedResults ==
    [i \in DOMAIN scan.res |->
        LET cells == WindowCells(input_array, scan.res[i].index,
                                 scan.window_size, scan.step_size)
        IN [touched |-> IF \E c \in cells : At(input_array, c) > 0 THEN 1 ELSE 0,
            mass |-> CellSum(input_array, cells)]]
ExpectedT == SeqSum([i \in DOMAIN scan.res |-> ExpectedResults[i].touched])

\* C25: the windows of a scan with a pool are submitted in enumeration
\* order, the draws deciding which, and each gathered result is that of the
\* window submitted at its position; so the returned N and lacunarity are
\* determined by the volume and the draws, whatever order the workers ran in.
C25_ScheduleIndependent ==
    (pc = "returned" /\ cfg.multiprocess) =>
        /\ \A i, j \in DOMAIN scan.res : i < j => EvaluatedAt(i) < EvaluatedAt(j)
        /\ \A i \in DOMAIN scan.res :
              /\ scan.res[i].touched = ExpectedResults[i].touched
              /\ scan.res[i].mass = ExpectedResults[i].mass
        /\ ret.N = BoxCount(ExpectedT, Norm(scan.box_window_counts, scan.window_counts,
                                            cfg.subsample))
        /\ ~cfg.histogram =>
              ret.lacunarity
                 = (IF ExpectedT = 0 THEN NaN
                    ELSE Lacunarity(UniqueDistribution(
                            NormalisedMass([i \in DOMAIN scan.res |-> ExpectedResults[i].mass],
                                           ExpectedT))))
        /\ cfg.histogram =>
              \E B \in BinChoices(cfg.bins,
                          NormalisedMass([i \in DOMAIN scan.res |-> ExpectedResults[i].mass],
                                         ExpectedT)) :
                  ret.lacunarity = Statistics(ExpectedResults, B).lacunarity

\* a subsampled scan whose workers ran: a window was skipped, and two
\* evaluated windows hold different masses
C25_Witness ==
    /\ pc = "returned"
    /\ cfg.multiprocess
    /\ cfg.subsample # None
    /\ Len(scan.res) >= 2
    /\ Len(scan.res) < NdindexLen(scan.window_counts)
    /\ \E i, j \in DOMAIN scan.res : scan.res[i].mass # scan.res[j].mass

\* C26 as stated: for a 3D image and a segmentation of its shape with a
\* non-zero voxel the crop-and-mask step completes, and the cropped
\* segmentation used as mask has the shape of the cropped image.
C26_Original ==
    (frame.pc # "idle" /\ \E q \in DOMAIN frame.seg_data.data : frame.seg_data.data[q] # 0) =>
        /\ frame.pc = "masked"
        /\ frame.cropped_seg.shape = frame.cropped_image.shape

\* the modalities the loop of analyze_patient_folder has passed
Passed == {Modalities[j] : j \in 1..(frame.m - 1)}
\* the modalities whose analysis raised
Errors == {frame.analysed[j] : j \in {k \in DOMAIN frame.outcomes : frame.outcomes[k] = "error"}}

\* C27: an exception of one modality's analysis is recorded as that
\* modality's error entry, the modalities after it are still analysed and
\* the patient analysis does not fail; a modality without a file gets no
\* entry; in the row of the batch table both have NaN as LD, and the
\* patient is counted as successful (its row once written).
C27_ModalityErrors ==
    frame.pc # "idle" =>
        /\ (frame.pc = "raised" \/ (frame.failed > 0 /\ ~frame.stored)) =>
              frame.analysed = <<>>
        /\ \A mod \in Passed :
              /\ mod \notin frame.present => frame.modalities[mod] = NoEntry
              /\ mod \in frame.present => mod \in Range(frame.analysed)
              /\ mod \in Errors => frame.modalities[mod] = ErrorEntry
              /\ (mod \in frame.present /\ mod \notin Errors) =>
                    (frame.modalities[mod] # NoEntry /\ ~frame.modalities[mod][1].error)
        /\ (frame.pc = "returned" \/ frame.stored) => Passed = Range(Modalities)
        /\ frame.stored =>
              /\ frame.saved => (frame.successful = 1 /\ frame.failed = 0)
              /\ \A mod \in Range(Modalities) :
                    IF mod \in Errors \/ mod \notin frame.present
                    THEN frame.row[mod] = NaN
                    ELSE frame.row[mod] = frame.modalities[mod][1].LD /\ IsRat(frame.row[mod])

\* a patient counted as successful whose first modality raised, whose second
\* has no file and whose third was analysed
C27_Witness ==
    /\ frame.pc = "counted"
    /\ frame.successful = 1
    /\ frame.present = {"t1", "t2"}
    /\ Errors = {"t1"}
    /\ frame.row["t1"] = NaN /\ frame.row["t1ce"] = NaN
    /\ IsRat(frame.row["t2"])

\* the rows a run appended to the table
RowsAppended == Cardinality({j \in DOMAIN batch.calls :
                                batch.calls[j].outcome \in {"ok", "save_error"}})

\* C28 as stated: in the summary of a run that attempts a patient, for every
\* start_from, successful + failed is the number of patients attempted, the rows appended
\* in the run are as many as successful, and total_patients and success_rate
\* are taken over the attempted patients.
C28_Original ==
    (batch.pc = "returned" /\ batch.start_from < Len(batch.patient_folders)) =>
        /\ batch.summary.successful + batch.summary.failed = Len(batch.calls)
        /\ RowsAppended = batch.summary.successful
        /\ batch.summary.total_patients
              = batch.summary.successful + batch.summary.failed
        /\ batch.summary.success_rate
              = (IF Len(batch.calls) = 0 THEN RZero
                 ELSE Rat(batch.summary.successful * 100, Len(batch.calls)))

\* C29 as stated: with subsampling, a scan with a pool over at least one
\* window position returns its (N, lacunarity) pair whatever the draws were,
\* also when every position was skipped.
C29_Original ==
    (/\ pc \in {"returned", "raised"}
     /\ cfg.subsample # None
     /\ cfg.multiprocess
     /\ ~cfg.histogram
     /\ ~IsEmptyVolume(input_array)
     /\ NdindexLen(scan.window_counts) > 0) =>
        pc = "returned"

\* C30 as stated: over every sequence of runs on one output folder the
\* results file holds at most one row per patient, and with
\* save_intermediate the file equals the table in memory after every
\* patient analysed successfully.
C30_Original ==
    /\ batch.csv # None =>
          \A i, j \in DOMAIN batch.csv[1] : i # j => batch.csv[1][i] # batch.csv[1][j]
    /\ (/\ batch.pc = "loop"
        /\ batch.save_intermediate
        /\ batch.calls # <<>>
        /\ batch.calls[Len(batch.calls)].outcome = "ok") =>
          batch.csv = Some(batch.df_main)

====
